---- MODULE Spec2Model ----
(***************************************************************************)
(* Gaia secrets daemon (stain-win/gaia): the daemon object, its bbolt      *)
(* database with the `secrets` and `clients` buckets, the lifecycle        *)
(* (InitializeDB, Start, UnlockDB, LockDB, Stop) and the secret-store      *)
(* operations served over gRPC.                                            *)
(*                                                                         *)
(* Strings that end up in database keys are sequences of byte values, so   *)
(* that key composition and prefix scans are computed on bytes as the code *)
(* does.  Secret values and passphrases are opaque TLA+ strings.           *)
(***************************************************************************)
EXTENDS Integers, Sequences, FiniteSets, TLC

(***************************************************************************)
(* Bounds of the model.                                                    *)
(***************************************************************************)
\* at most this many user secrets are held in the secrets bucket at once
MaxSecrets == 2
\* at most this many items in one ImportSecrets batch
MaxBatch == 2

(***************************************************************************)
(* Program constants (byte strings).                                       *)
(***************************************************************************)
\* the NUL byte 0x00
NUL == 0
nullByte == <<NUL>>
\* "common"
commonNamespace == <<99, 111, 109, 109, 111, 110>>
\* "gaia:internal:cmfk1rbd000000m74bic9evy3"
metaPrefix ==
  <<103, 97, 105, 97, 58, 105, 110, 116, 101, 114, 110, 97, 108, 58, 99, 109,
    102, 107, 49, 114, 98, 100, 48, 48, 48, 48, 48, 48, 109, 55, 52, 98, 105,
    99, 57, 101, 118, 121, 51>>
\* metaPrefix + "__salt__"
saltKey == metaPrefix \o <<95, 95, 115, 97, 108, 116, 95, 95>>
\* metaPrefix + "__key_hash__"
keyHashKey == metaPrefix \o <<95, 95, 107, 101, 121, 95, 104, 97, 115, 104, 95, 95>>
StatusRunning == "running"
StatusStopped == "stopped"
StatusStarting == "starting"
\* gcm.NonceSize() of the standard GCM
NonceSize == 12

(***************************************************************************)
(* Inputs the operations are exercised with.                               *)
(***************************************************************************)
\* "web-a"
webA == <<119, 101, 98, 45, 97>>
\* "prod"
prod == <<112, 114, 111, 100>>
\* "db_url"
dbUrl == <<100, 98, 95, 117, 114, 108>>
\* "web-b"
webB == <<119, 101, 98, 45, 98>>
\* client names the admin service is called with
ClientNames == {commonNamespace, webA}
\* the peer certificate chains (subject CNs) the client service is called with
PeerCertificates == {<<>>} \cup {<<c>> : c \in ClientNames \cup {webB}}
Namespaces == {commonNamespace, webA, prod}
Ids == {dbUrl}
Values == {"x", "y"}
\* the items an import stream is built from
ImportItems ==
  { [client |-> webA, ns |-> webA, id |-> dbUrl, value |-> "x"],
    [client |-> webA, ns |-> prod, id |-> dbUrl, value |-> "y"],
    [client |-> commonNamespace, ns |-> commonNamespace, id |-> dbUrl, value |-> "y"] }
\* the passphrases `gaia init` is run with, and those `gaia unlock` is tried with
InitPassphrases == {"CorrectHorseBatteryStaple!7"}
Passphrases == InitPassphrases \cup {"Tr0ub4dor&3-not-the-passphrase"}
\* the 16 random salt bytes, abstracted to the draws of the model
Salts == {<<1>>}
\* the random GCM nonce, abstracted to the draws of the model
Nonces == {[j \in 1..NonceSize |-> 1]}
\* the state of certs/ca.key and certs/ca.crt the operator can leave on disk
CAFileStates == {"ok", "nocert"}

(***************************************************************************)
(* Crypto primitives (package encrypt).                                    *)
(***************************************************************************)
\* a nil / empty byte slice
NoKey == <<>>

\* scrypt: deterministic in (passphrase, salt), collision-free in the model
DeriveKey(passphrase, salt) == <<passphrase, salt>>

\* sha256.Sum256, collision-free in the model
Sum256(k) == <<"sha256", k>>

\* aes.NewCipher rejects a key that is not 16, 24 or 32 bytes long (a nil key)
CipherOK(k) == k # NoKey

\* a stored value that is not base64 text: the salt, the key hash
Raw(bytes) == [kind |-> "raw", key |-> NoKey, nonce |-> <<>>, msg |-> "", raw |-> bytes]

\* base64 text of bytes that no Seal produced
Blob(bytes) == [kind |-> "b64", key |-> NoKey, nonce |-> <<>>, msg |-> "", raw |-> bytes]

\* base64 text of gcm.Seal(dst, nonce, plaintext, nil) under k: the bytes of dst
\* followed by the sealed box, which only k and that nonce open
Seal(k, dst, nonce, plaintext) ==
  [kind |-> "b64", key |-> k, nonce |-> nonce, msg |-> plaintext, raw |-> dst]

\* Encrypt: base64(Seal(nonce, nonce, plaintext)) with a nonce of NonceSize
\* random bytes; "" and an error when there is no cipher
Encrypt(k, plaintext, nonce) ==
  IF ~CipherOK(k)
    THEN [err |-> "cipher", enc |-> Blob(<<>>)]
    ELSE [err |-> "ok", enc |-> Seal(k, nonce, nonce, plaintext)]

\* fault: Decrypt that opens an envelope without verifying its tag
DecryptNoAuth(k, enc) ==
  IF enc.kind = "raw" THEN [err |-> "base64", msg |-> ""]
  ELSE IF ~CipherOK(k) THEN [err |-> "cipher", msg |-> ""]
  ELSE IF enc.key = NoKey /\ Len(enc.raw) < NonceSize THEN [err |-> "ok", msg |-> ""]
  ELSE IF Len(enc.raw) = NonceSize /\ enc.key # NoKey THEN [err |-> "ok", msg |-> enc.msg]
  ELSE [err |-> "auth", msg |-> ""]

\* Decrypt: base64 decoding, then the cipher, then the length test (it returns
\* the nil error of NewGCM, so a nil plaintext and no error; a sealed box is
\* longer than a nonce), then Open of what follows the first NonceSize bytes
\* with those bytes as nonce: the plaintext when that is exactly a box sealed
\* under k with that nonce, else an authentication error
Decrypt(k, enc) ==
  IF enc.kind = "raw" THEN [err |-> "base64", msg |-> ""]
  ELSE IF ~CipherOK(k) THEN [err |-> "cipher", msg |-> ""]
  ELSE IF enc.key = NoKey /\ Len(enc.raw) < NonceSize THEN [err |-> "ok", msg |-> ""]
  ELSE IF Len(enc.raw) = NonceSize /\ enc.key = k /\ enc.nonce = SubSeq(enc.raw, 1, NonceSize)
    THEN [err |-> "ok", msg |-> enc.msg]
  ELSE [err |-> "auth", msg |-> ""]

(***************************************************************************)
(* Name validation (package validation).                                   *)
(***************************************************************************)
\* nameValidationRegex ^[a-z0-9]([-_a-z0-9]{0,61}[a-z0-9])?$ on the bytes of a name
nameValidationRegex(name) ==
  LET alnum(b) == b \in 97..122 \/ b \in 48..57
      inner(b) == alnum(b) \/ b = 45 \/ b = 95
  IN /\ Len(name) >= 1
     /\ Len(name) <= 63
     /\ alnum(name[1])
     /\ alnum(name[Len(name)])
     /\ \A j \in 1..Len(name) : inner(name[j])

\* ValidateName: TRUE when it returns nil
ValidateName(name) == nameValidationRegex(name)

(***************************************************************************)
(* Database keys and bbolt cursors.                                        *)
(***************************************************************************)
\* fault: the three components joined without the delimiter
constructDBKeyConcat(client, namespace, key) == client \o namespace \o key

\* bytes.Join({client, namespace, key}, nullByte)
constructDBKey(client, namespace, key) ==
  client \o nullByte \o namespace \o nullByte \o key

\* bytes.HasPrefix
HasPrefix(k, prefix) ==
  /\ Len(prefix) <= Len(k)
  /\ \A j \in 1..Len(prefix) : k[j] = prefix[j]

\* bytes.Compare(a, b) < 0: the order of keys in a bucket
BytesLess(a, b) ==
  \E j \in 1..(Len(a) + 1) :
    /\ \A h \in 1..(j - 1) : h <= Len(b) /\ a[h] = b[h]
    /\ j <= Len(b)
    /\ (j > Len(a) \/ a[j] < b[j])

\* the keys of a bucket in cursor order
RECURSIVE SortedKeys(_)
SortedKeys(S) ==
  IF S = {} THEN <<>>
  ELSE LET m == CHOOSE x \in S : \A y \in S \ {x} : BytesLess(x, y)
       IN <<m>> \o SortedKeys(S \ {m})

\* Cursor.Seek: the position of the first key >= seek, Len+1 when there is none
Seek(keys, seek) ==
  LET hits == {j \in 1..Len(keys) : ~BytesLess(keys[j], seek)}
  IN IF hits = {} THEN Len(keys) + 1
     ELSE CHOOSE j \in hits : \A h \in hits : j <= h

\* bucket.Put / bucket.Delete on a bucket held as a function
Put(b, k, v) == [x \in DOMAIN b \cup {k} |-> IF x = k THEN v ELSE b[x]]
Delete(b, k) == [x \in DOMAIN b \ {k} |-> b[x]]

\* the user keys of the secrets bucket (all but the two metadata keys)
UserKeys(b) == DOMAIN b \ {saltKey, keyHashKey}

(***************************************************************************)
(* State.                                                                  *)
(***************************************************************************)
VARIABLES
  dbFile,    \* the database file exists on disk
  secrets,   \* bucket "secrets" of the file: key -> stored value
  clients,   \* bucket "clients" of the file: the registered names
  caFiles,   \* certs/ca.key and certs/ca.crt on disk: "ok", "nokey" or "nocert" (file missing)
  serving,   \* a daemon process is inside Start, serving RPCs
  status,    \* Daemon.status
  isLocked,  \* Daemon.isLocked
  db,        \* Daemon.db: "nil", "open" or "closed" (a handle after Close)
  key,       \* Daemon.key
  caKey,     \* Daemon.caKey is loaded
  caCert,    \* Daemon.caCert is loaded
  initPass,  \* history: the passphrase `gaia init` was given
  written,   \* history: <<client, namespace, id>> -> plaintext last written and still in place
  resp,      \* the last lifecycle request (init, start, unlock, lock, stop) and its result
  dbLock,    \* Daemon.dbLock: the goroutine holding it for writing, those holding it for reading
  calls,     \* the RPC each server goroutine is running and the position it is at
  stopChannel, \* Daemon.stopChannel: "open" or "closed"
  rwtx       \* bbolt's DB.rwtx: the one write transaction that can be open

vars == <<dbFile, secrets, clients, caFiles, serving, status, isLocked, db,
          key, caKey, caCert, initPass, written, resp, dbLock, calls, stopChannel,
          rwtx>>

disk == <<dbFile, secrets, clients>>
daemon == <<status, isLocked, db, key, caKey, caCert>>
conc == <<dbLock, calls, stopChannel, rwtx>>

NoBytes == <<>>

\* the server goroutines that run RPCs at the same time
Threads == {"t1", "t2"}
\* the zero value of sync.RWMutex
NoLock == [writer |-> "none", readers |-> {}]
\* Daemon.key was not passed to Encrypt or Decrypt
NotUsed == <<"unused">>
\* a goroutine that runs no RPC
IdleCall ==
  [op |-> "none", pc |-> "idle", pass |-> "", seen |-> <<TRUE, NoKey>>,
   used |-> NotUsed, ret |-> "none"]
NoCalls == [t \in Threads |-> IdleCall]

EmptyBucket == [x \in {} |-> Raw(NoBytes)]
EmptyWritten == [x \in {} |-> ""]

\* no write transaction was begun: `state` is "none", "open", "committed" or
\* "rolledback"; `before` is the bucket as committed when the transaction
\* began, `b` the bucket as the transaction sees it, `j` the item its function
\* is at
NoTx ==
  [state |-> "none", before |-> EmptyBucket, b |-> EmptyBucket, j |-> 0,
   overwrite |-> FALSE]

\* the result of a lifecycle request: the method and the error kind ("ok": none)
Resp(op, err) == [op |-> op, err |-> err]

\* the error kinds of the model; "ok" is success, "panic" ends the process
ErrorKinds ==
  {"ok", "exists", "notinit", "tls", "listen", "invalidpass", "caload", "locked",
   "dbnotopen", "unauthorized", "notfound", "integrity", "encrypt", "conflict",
   "nopeer", "recv", "noconfig", "noitem", "keyrequired", "panic"}

\* NewDaemon: the fields of a fresh daemon object
NewDaemon ==
  [status |-> StatusStopped, isLocked |-> TRUE, db |-> "nil", key |-> NoKey,
   caKey |-> FALSE, caCert |-> FALSE]

\* a fresh daemon object, and no database on disk
Init ==
  /\ dbFile = FALSE
  /\ secrets = EmptyBucket
  /\ clients = {}
  /\ caFiles = "ok"
  /\ serving = FALSE
  /\ status = NewDaemon.status
  /\ isLocked = NewDaemon.isLocked
  /\ db = NewDaemon.db
  /\ key = NewDaemon.key
  /\ caKey = NewDaemon.caKey
  /\ caCert = NewDaemon.caCert
  /\ initPass = ""
  /\ written = EmptyWritten
  /\ resp = Resp("none", "ok")
  /\ dbLock = NoLock
  /\ calls = NoCalls
  /\ stopChannel = "open"
  /\ rwtx = NoTx

\* passwordvalidator.Validate's estimate, log2(base^length) in whole bits, of
\* the passphrases the model draws (the library is outside the repository:
\* base is the size of the character classes used, length the characters
\* left after runs are shortened)
getEntropy(password) ==
  CASE password = "" -> 0
    [] password = "Ab1!xyz" -> 42
    [] password = "password" -> 37
    [] password = "CorrectHorseBatteryStaple!7" -> 163
    [] password = "Tr0ub4dor&3-not-the-passphrase" -> 185

\* minEntropy of ValidatePassword, in bits
minEntropy == 60

\* encrypt.ValidatePassword: TRUE when the library returns no error
ValidatePassword(password) == getEntropy(password) >= minEntropy

\* the Validate function of the passphrase input of `gaia init`
validatePassphrase(s) ==
  IF Len(s) < 8 THEN "short"
  ELSE IF ~ValidatePassword(s) THEN "entropy"
  ELSE "ok"

(***************************************************************************)
(* Lifecycle.                                                              *)
(***************************************************************************)
\* fault: InitializeDB without the test for an existing database file
InitializeDBOverwrite(passphrase, salt) ==
  LET k == DeriveKey(passphrase, salt)
      keyHash == Sum256(k)
  IN [err |-> "ok", dbFile |-> TRUE,
      secrets |-> Put(Put(EmptyBucket, saltKey, Raw(salt)), keyHashKey, Raw(keyHash)),
      clients |-> {commonNamespace}]

\* Daemon.InitializeDB: the error and the database file it leaves
InitializeDBFile(passphrase, salt) ==
  LET k == DeriveKey(passphrase, salt)
      keyHash == Sum256(k)
  IN IF dbFile
       THEN [err |-> "exists", dbFile |-> dbFile, secrets |-> secrets, clients |-> clients]
       ELSE [err |-> "ok", dbFile |-> TRUE,
             secrets |-> Put(Put(EmptyBucket, saltKey, Raw(salt)), keyHashKey, Raw(keyHash)),
             clients |-> {commonNamespace}]

\* `gaia init`: Daemon.InitializeDB on a daemon object of the init process
InitializeDB(passphrase, salt) ==
  /\ LET r == InitializeDBFile(passphrase, salt)
     IN /\ dbFile' = r.dbFile
        /\ secrets' = r.secrets
        /\ clients' = r.clients
        /\ initPass' = IF r.err = "ok" THEN passphrase ELSE initPass
        /\ resp' = Resp("Init", r.err)
  /\ UNCHANGED <<caFiles, serving, daemon, written>>
  /\ UNCHANGED conc

\* Daemon.openDB: bbolt.Open takes the exclusive lock of the file and gives up
\* after Timeout (1 second) when another process holds it; d.db is then nil
openDB(flock) ==
  IF flock THEN [err |-> "timeout", db |-> "nil"] ELSE [err |-> "ok", db |-> "open"]

\* fault: Start that comes up with the lock flag clear
StartDBUnlocked(tlsOK, flock, listenOK) ==
  IF ~dbFile
    THEN [err |-> "notinit", status |-> NewDaemon.status, isLocked |-> NewDaemon.isLocked,
          db |-> NewDaemon.db]
  ELSE IF ~tlsOK
    THEN [err |-> "tls", status |-> StatusStopped, isLocked |-> NewDaemon.isLocked,
          db |-> NewDaemon.db]
  ELSE IF openDB(flock).err # "ok"
    THEN [err |-> "dbopen", status |-> StatusStopped, isLocked |-> NewDaemon.isLocked,
          db |-> openDB(flock).db]
  ELSE IF ~listenOK
    THEN [err |-> "listen", status |-> StatusStopped, isLocked |-> NewDaemon.isLocked,
          db |-> "closed"]
  ELSE [err |-> "ok", status |-> StatusRunning, isLocked |-> FALSE, db |-> "open"]

\* fault: Start without the test for the database file
StartDBNoStat(tlsOK, flock, listenOK) ==
  IF ~tlsOK
    THEN [err |-> "tls", status |-> StatusStopped, isLocked |-> NewDaemon.isLocked,
          db |-> NewDaemon.db]
  ELSE IF openDB(flock).err # "ok"
    THEN [err |-> "dbopen", status |-> StatusStopped, isLocked |-> NewDaemon.isLocked,
          db |-> openDB(flock).db]
  ELSE IF ~listenOK
    THEN [err |-> "listen", status |-> StatusStopped, isLocked |-> NewDaemon.isLocked,
          db |-> "closed"]
  ELSE [err |-> "ok", status |-> StatusRunning, isLocked |-> TRUE, db |-> "open"]

\* Daemon.Start up to its select, on the daemon object NewDaemon made: the
\* error and the fields it leaves; flock: another process holds the lock of
\* the database file
StartDB(tlsOK, flock, listenOK) ==
  IF ~dbFile
    THEN [err |-> "notinit", status |-> NewDaemon.status, isLocked |-> NewDaemon.isLocked,
          db |-> NewDaemon.db]
  ELSE IF ~tlsOK
    THEN [err |-> "tls", status |-> StatusStopped, isLocked |-> NewDaemon.isLocked,
          db |-> NewDaemon.db]
  ELSE IF openDB(flock).err # "ok"
    THEN [err |-> "dbopen", status |-> StatusStopped, isLocked |-> NewDaemon.isLocked,
          db |-> openDB(flock).db]
  ELSE IF ~listenOK
    THEN [err |-> "listen", status |-> StatusStopped, isLocked |-> NewDaemon.isLocked,
          db |-> "closed"]
  ELSE [err |-> "ok", status |-> StatusRunning, isLocked |-> TRUE, db |-> "open"]

\* `gaia start`: NewDaemon in a fresh process, then Daemon.Start; the process
\* that served before has exited, so the lock of the file is free
Start(tlsOK, listenOK) ==
  /\ ~serving
  /\ LET r == StartDB(tlsOK, FALSE, listenOK)
     IN /\ status' = r.status
        /\ isLocked' = r.isLocked
        /\ db' = r.db
        /\ serving' = (r.err = "ok")
        /\ resp' = Resp("Start", r.err)
  /\ key' = NewDaemon.key
  /\ caKey' = NewDaemon.caKey
  /\ caCert' = NewDaemon.caCert
  /\ UNCHANGED <<disk, caFiles, initPass, written>>
  /\ dbLock' = NoLock
  /\ calls' = NoCalls
  /\ stopChannel' = "open"
  /\ rwtx' = NoTx

\* Daemon.loadCACredentials: the fields it leaves, and whether it failed
loadCACredentials ==
  CASE caFiles = "nokey"  -> [err |-> "caload", caKey |-> caKey, caCert |-> caCert]
    [] caFiles = "nocert" -> [err |-> "caload", caKey |-> TRUE, caCert |-> caCert]
    [] OTHER              -> [err |-> "ok", caKey |-> TRUE, caCert |-> TRUE]

\* fault: UnlockDB that derives the key without comparing its hash to the stored one
UnlockDBNoCompare(passphrase) ==
  LET salt == secrets[saltKey].raw
      derivedKey == DeriveKey(passphrase, salt)
      ca == loadCACredentials
  IN IF ca.err # "ok"
       THEN [err |-> "caload", db |-> "nil", key |-> NoKey, caKey |-> ca.caKey,
             caCert |-> ca.caCert, isLocked |-> isLocked, status |-> status]
     ELSE [err |-> "ok", db |-> "open", key |-> derivedKey, caKey |-> ca.caKey,
           caCert |-> ca.caCert, isLocked |-> FALSE, status |-> StatusRunning]

\* the outcome of Daemon.UnlockDB(passphrase): error and the daemon fields it leaves
UnlockDB(passphrase) ==
  LET salt == secrets[saltKey].raw
      storedHash == secrets[keyHashKey].raw
      derivedKey == DeriveKey(passphrase, salt)
      ca == loadCACredentials
  IN IF Sum256(derivedKey) # storedHash
       THEN [err |-> "invalidpass", db |-> "closed", key |-> key, caKey |-> caKey,
             caCert |-> caCert, isLocked |-> isLocked, status |-> status]
     ELSE IF ca.err # "ok"
       THEN [err |-> "caload", db |-> "nil", key |-> NoKey, caKey |-> ca.caKey,
             caCert |-> ca.caCert, isLocked |-> isLocked, status |-> status]
     ELSE [err |-> "ok", db |-> "open", key |-> derivedKey, caKey |-> ca.caKey,
           caCert |-> ca.caCert, isLocked |-> FALSE, status |-> StatusRunning]

\* gaiaAdminServer.Unlock
Unlock(passphrase) ==
  /\ serving
  /\ LET r == UnlockDB(passphrase)
     IN /\ db' = r.db
        /\ key' = r.key
        /\ caKey' = r.caKey
        /\ caCert' = r.caCert
        /\ isLocked' = r.isLocked
        /\ status' = r.status
        /\ resp' = Resp("Unlock", r.err)
  /\ UNCHANGED <<disk, caFiles, serving, initPass, written>>
  /\ UNCHANGED conc

\* fault: LockDB that closes the database and drops the key but leaves the flag
LockDBKeepsFlag == [db |-> "nil", key |-> NoKey, isLocked |-> isLocked]

\* the daemon fields Daemon.LockDB leaves
LockDB == [db |-> "nil", key |-> NoKey, isLocked |-> TRUE]

\* gaiaAdminServer.Lock as a function of the daemon: the answer and the fields
\* it leaves
LockRPC ==
  [err |-> "ok", db |-> LockDB.db, key |-> LockDB.key, isLocked |-> LockDB.isLocked]

\* gaiaAdminServer.Lock
Lock ==
  /\ serving
  /\ db' = LockDB.db
  /\ key' = LockDB.key
  /\ isLocked' = LockDB.isLocked
  /\ resp' = Resp("Lock", "ok")
  /\ UNCHANGED <<disk, caFiles, serving, status, caKey, caCert, initPass, written>>
  /\ UNCHANGED conc

\* Start waking from its select on errChan (Serve returned an error): it
\* returns the error at once; the fields it leaves
StartServeError == [err |-> "serve", status |-> status, db |-> db]

\* gaiaAdminServer.Stop, and Start waking from its select
Stop ==
  /\ serving
  /\ serving' = FALSE
  /\ status' = StatusStopped
  /\ IF db = "nil"
       THEN /\ db' = db
            /\ resp' = Resp("Stop", "panic")
       ELSE /\ db' = "closed"
            /\ resp' = Resp("Stop", "ok")
  /\ UNCHANGED <<disk, caFiles, isLocked, key, caKey, caCert, initPass, written>>
  /\ UNCHANGED conc

\* the operator removes or restores the CA files under certs/
CAFilesChange ==
  /\ caFiles' \in CAFileStates \ {caFiles}
  /\ UNCHANGED <<disk, serving, daemon, initPass, written, resp>>
  /\ UNCHANGED conc

(***************************************************************************)
(* Secret store: Daemon methods as outcomes (error and the buckets the     *)
(* transaction leaves), then the gRPC handlers that apply them.            *)
(***************************************************************************)
\* db.Update / db.View work on an open handle; after Close they return
\* bbolt's ErrDatabaseNotOpen
DBUsable == db = "open"

\* the check that opens the Daemon's write methods
LockedOrNoDB == isLocked \/ db = "nil"

\* Daemon.RegisterClient; Bucket.Put refuses an empty key (ErrKeyRequired)
RegisterClientDB(clientName) ==
  IF LockedOrNoDB THEN [err |-> "locked", clients |-> clients]
  ELSE IF ~DBUsable THEN [err |-> "dbnotopen", clients |-> clients]
  ELSE IF clientName = NoBytes THEN [err |-> "keyrequired", clients |-> clients]
  ELSE [err |-> "ok", clients |-> clients \cup {clientName}]

\* gaiaAdminServer.RegisterClient
RegisterClientRPC(clientName) ==
  IF isLocked THEN [err |-> "locked", clients |-> clients]
  ELSE IF ~(caKey /\ caCert) THEN [err |-> "panic", clients |-> clients]
  ELSE RegisterClientDB(clientName)

RegisterClient(clientName) ==
  /\ serving
  /\ LET r == RegisterClientRPC(clientName)
     IN /\ clients' = r.clients
  /\ UNCHANGED <<dbFile, secrets, caFiles, serving, daemon, initPass, written, resp>>
  /\ UNCHANGED conc

\* fault: the cursor loop as an `if`: only the first key with the prefix is deleted
DeleteWhilePrefixOnce(b, keys, j, prefix) ==
  IF j > Len(keys) \/ ~HasPrefix(keys[j], prefix) THEN b
  ELSE Delete(b, keys[j])

\* the cursor loop of RevokeClient: from position j, delete while the key has the prefix
RECURSIVE DeleteWhilePrefix(_, _, _, _)
DeleteWhilePrefix(b, keys, j, prefix) ==
  IF j > Len(keys) \/ ~HasPrefix(keys[j], prefix) THEN b
  ELSE DeleteWhilePrefix(Delete(b, keys[j]), keys, j + 1, prefix)

\* Daemon.RevokeClient: one write transaction over both buckets
RevokeClientDB(clientName) ==
  LET prefix == clientName \o nullByte
      keys == SortedKeys(DOMAIN secrets)
  IN IF LockedOrNoDB THEN [err |-> "locked", clients |-> clients, secrets |-> secrets]
     ELSE IF ~DBUsable THEN [err |-> "dbnotopen", clients |-> clients, secrets |-> secrets]
     ELSE [err |-> "ok", clients |-> clients \ {clientName},
           secrets |-> DeleteWhilePrefix(secrets, keys, Seek(keys, prefix), prefix)]

\* gaiaAdminServer.RevokeClient
RevokeClientRPC(clientName) ==
  IF isLocked THEN [err |-> "locked", clients |-> clients, secrets |-> secrets]
  ELSE RevokeClientDB(clientName)

RevokeClient(clientName) ==
  /\ serving
  /\ LET r == RevokeClientRPC(clientName)
     IN /\ clients' = r.clients
        /\ secrets' = r.secrets
        /\ written' = IF r.err = "ok"
                        THEN [t \in {u \in DOMAIN written : u[1] # clientName} |-> written[t]]
                        ELSE written
  /\ UNCHANGED <<dbFile, caFiles, serving, daemon, initPass, resp>>
  /\ UNCHANGED conc

\* Daemon.AddSecret
AddSecretDB(clientName, namespace, id, value, nonce) ==
  LET k == constructDBKey(clientName, namespace, id)
      e == Encrypt(key, value, nonce)
  IN IF LockedOrNoDB THEN [err |-> "locked", secrets |-> secrets]
     ELSE IF e.err # "ok" THEN [err |-> "encrypt", secrets |-> secrets]
     ELSE IF ~DBUsable THEN [err |-> "dbnotopen", secrets |-> secrets]
     ELSE [err |-> "ok", secrets |-> Put(secrets, k, e.enc)]

\* gaiaAdminServer.AddSecret
AddSecretRPC(clientName, namespace, id, value, nonce) ==
  IF isLocked THEN [err |-> "locked", secrets |-> secrets]
  ELSE AddSecretDB(clientName, namespace, id, value, nonce)

AddSecret(clientName, namespace, id, value, nonce) ==
  /\ serving
  /\ LET r == AddSecretRPC(clientName, namespace, id, value, nonce)
     IN /\ Cardinality(UserKeys(r.secrets)) <= MaxSecrets
        /\ secrets' = r.secrets
        /\ written' = IF r.err = "ok"
                        THEN Put(written, <<clientName, namespace, id>>, value)
                        ELSE written
  /\ UNCHANGED <<dbFile, clients, caFiles, serving, daemon, initPass, resp>>
  /\ UNCHANGED conc

\* fault: GetSecret that looks the key up before it checks the namespace
GetSecretDBLookupFirst(store, clientName, namespace, id) ==
  LET k == constructDBKey(clientName, namespace, id)
  IN IF isLocked THEN [err |-> "locked", val |-> ""]
     ELSE IF ~DBUsable THEN [err |-> "dbnotopen", val |-> ""]
     ELSE IF k \notin DOMAIN store THEN [err |-> "notfound", val |-> ""]
     ELSE IF namespace # commonNamespace /\ namespace # clientName
       THEN [err |-> "unauthorized", val |-> ""]
     ELSE LET d == Decrypt(key, store[k])
          IN IF d.err # "ok" THEN [err |-> "integrity", val |-> ""]
             ELSE [err |-> "ok", val |-> d.msg]

\* fault: GetSecret that takes the client component of the key from the request's
\* namespace instead of the certificate
GetSecretDBByNamespace(store, clientName, namespace, id) ==
  LET k == constructDBKey(namespace, namespace, id)
  IN IF isLocked THEN [err |-> "locked", val |-> ""]
     ELSE IF ~DBUsable THEN [err |-> "dbnotopen", val |-> ""]
     ELSE IF k \notin DOMAIN store THEN [err |-> "notfound", val |-> ""]
     ELSE LET d == Decrypt(key, store[k])
          IN IF d.err # "ok" THEN [err |-> "integrity", val |-> ""]
             ELSE [err |-> "ok", val |-> d.msg]

\* Daemon.GetSecret on the secrets bucket `store`
GetSecretDB(store, clientName, namespace, id) ==
  LET lookupClient == IF namespace = commonNamespace THEN commonNamespace ELSE clientName
      k == constructDBKey(lookupClient, namespace, id)
  IN IF isLocked THEN [err |-> "locked", val |-> ""]
     ELSE IF db = "nil" THEN [err |-> "dbnotopen", val |-> ""]
     ELSE IF namespace # commonNamespace /\ namespace # clientName
       THEN [err |-> "unauthorized", val |-> ""]
     ELSE IF ~DBUsable THEN [err |-> "dbnotopen", val |-> ""]
     ELSE IF k \notin DOMAIN store THEN [err |-> "notfound", val |-> ""]
     ELSE LET d == Decrypt(key, store[k])
          IN IF d.err # "ok" THEN [err |-> "integrity", val |-> ""]
             ELSE [err |-> "ok", val |-> d.msg]

\* getClientIdentity: the subject CN of the first peer certificate
getClientIdentity(peerCertificates) == peerCertificates[1]

\* gaiaClientServer.GetSecret: the request carries only namespace and id
GetSecretRPC(peerCertificates, namespace, id) ==
  IF Len(peerCertificates) = 0 THEN [err |-> "nopeer", val |-> ""]
  ELSE GetSecretDB(secrets, getClientIdentity(peerCertificates), namespace, id)

GetSecret(peerCertificates, namespace, id) ==
  /\ serving
  /\ GetSecretRPC(peerCertificates, namespace, id).err \in ErrorKinds
  /\ UNCHANGED vars

\* Daemon.DeleteSecret
DeleteSecretDB(clientName, namespace, id) ==
  LET k == constructDBKey(clientName, namespace, id)
  IN IF LockedOrNoDB THEN [err |-> "locked", secrets |-> secrets]
     ELSE IF ~DBUsable THEN [err |-> "dbnotopen", secrets |-> secrets]
     ELSE [err |-> "ok", secrets |-> Delete(secrets, k)]

\* gaiaAdminServer.DeleteSecret
DeleteSecretRPC(clientName, namespace, id) ==
  IF isLocked THEN [err |-> "locked", secrets |-> secrets]
  ELSE DeleteSecretDB(clientName, namespace, id)

DeleteSecret(clientName, namespace, id) ==
  /\ serving
  /\ LET r == DeleteSecretRPC(clientName, namespace, id)
     IN /\ secrets' = r.secrets
        /\ written' = IF r.err = "ok"
                        THEN [t \in DOMAIN written \ {<<clientName, namespace, id>>} |-> written[t]]
                        ELSE written
  /\ UNCHANGED <<dbFile, clients, caFiles, serving, daemon, initPass, resp>>
  /\ UNCHANGED conc

\* fault: the loop without the existence check of a non-overwriting import
RECURSIVE ImportLoopNoCheck(_, _, _, _, _, _)
ImportLoopNoCheck(b, items, nonces, j, overwrite, importedCount) ==
  IF j > Len(items) THEN [err |-> "ok", b |-> b, count |-> importedCount, at |-> 0]
  ELSE LET it == items[j]
           k == constructDBKey(it.client, it.ns, it.id)
           e == Encrypt(key, it.value, nonces[j])
       IN IF e.err # "ok"
            THEN [err |-> "encrypt", b |-> b, count |-> importedCount, at |-> j]
          ELSE ImportLoopNoCheck(Put(b, k, e.enc), items, nonces, j + 1, overwrite,
                                 importedCount + 1)

\* the loop of Daemon.ImportSecrets inside its write transaction, from item j:
\* the error, the bucket as the transaction sees it, importedCount, and the
\* position of the item the error message names (0: none)
RECURSIVE ImportLoop(_, _, _, _, _, _)
ImportLoop(b, items, nonces, j, overwrite, importedCount) ==
  IF j > Len(items) THEN [err |-> "ok", b |-> b, count |-> importedCount, at |-> 0]
  ELSE LET it == items[j]
           k == constructDBKey(it.client, it.ns, it.id)
           e == Encrypt(key, it.value, nonces[j])
       IN IF ~overwrite /\ k \in DOMAIN b
            THEN [err |-> "conflict", b |-> b, count |-> importedCount, at |-> j]
          ELSE IF e.err # "ok"
            THEN [err |-> "encrypt", b |-> b, count |-> importedCount, at |-> j]
          ELSE ImportLoop(Put(b, k, e.enc), items, nonces, j + 1, overwrite,
                          importedCount + 1)

\* fault: writes that are not rolled back when the function returns an error
CommitAlways(before, tx) == tx.b

\* db.Update: the transaction commits what its function wrote when the function
\* returned nil, and rolls back to `before` otherwise
Commit(before, tx) == IF tx.err = "ok" THEN tx.b ELSE before

\* Daemon.ImportSecrets
ImportSecretsDB(items, nonces, overwrite) ==
  IF LockedOrNoDB THEN [err |-> "locked", secrets |-> secrets, count |-> 0]
  ELSE IF ~DBUsable THEN [err |-> "dbnotopen", secrets |-> secrets, count |-> 0]
  ELSE LET tx == ImportLoop(secrets, items, nonces, 1, overwrite, 0)
       IN [err |-> tx.err, secrets |-> Commit(secrets, tx),
           count |-> IF tx.err = "ok" THEN tx.count ELSE 0]

\* the items of a stream's frames after the first
FrameItems(frames) == [j \in 1..(Len(frames) - 1) |-> frames[j + 1].item]

\* fault: a handler that skips the later frames that are not items
ImportSecretsRPCLenient(frames, nonces) ==
  IF isLocked THEN [err |-> "locked", secrets |-> secrets, count |-> 0]
  ELSE IF Len(frames) = 0 THEN [err |-> "recv", secrets |-> secrets, count |-> 0]
  ELSE IF frames[1].kind # "config"
    THEN [err |-> "noconfig", secrets |-> secrets, count |-> 0]
  ELSE LET its == SelectSeq(Tail(frames), LAMBDA x : x.kind = "item")
       IN ImportSecretsDB([j \in 1..Len(its) |-> its[j].item], nonces, frames[1].overwrite)

\* gaiaAdminServer.ImportSecrets: a config frame, then item frames up to EOF
ImportSecretsRPC(frames, nonces) ==
  IF isLocked THEN [err |-> "locked", secrets |-> secrets, count |-> 0]
  ELSE IF Len(frames) = 0 THEN [err |-> "recv", secrets |-> secrets, count |-> 0]
  ELSE IF frames[1].kind # "config"
    THEN [err |-> "noconfig", secrets |-> secrets, count |-> 0]
  ELSE IF \E j \in 2..Len(frames) : frames[j].kind # "item"
    THEN [err |-> "noitem", secrets |-> secrets, count |-> 0]
  ELSE ImportSecretsDB(FrameItems(frames), nonces, frames[1].overwrite)

ImportSecrets(frames, nonces) ==
  /\ serving
  /\ LET r == ImportSecretsRPC(frames, nonces)
         items == FrameItems(frames)
         last(t) == CHOOSE j \in 1..Len(items) :
                      /\ <<items[j].client, items[j].ns, items[j].id>> = t
                      /\ \A h \in (j + 1)..Len(items) :
                           <<items[h].client, items[h].ns, items[h].id>> # t
         ts == {<<items[j].client, items[j].ns, items[j].id>> : j \in 1..Len(items)}
     IN /\ Cardinality(UserKeys(r.secrets)) <= MaxSecrets
        /\ secrets' = r.secrets
        /\ written' = IF r.err = "ok"
                        THEN [t \in DOMAIN written \cup ts |->
                                IF t \in ts THEN items[last(t)].value ELSE written[t]]
                        ELSE written
  /\ UNCHANGED <<dbFile, clients, caFiles, serving, daemon, initPass, resp>>
  /\ UNCHANGED conc

\* the position of the first NUL byte of s at or after `from`, 0 when there is none
IndexNUL(s, from) ==
  LET hits == {j \in from..Len(s) : s[j] = NUL}
  IN IF hits = {} THEN 0 ELSE CHOOSE j \in hits : \A h \in hits : j <= h

\* strings.SplitN(k, "\x00", 3)
SplitN3(k) ==
  LET a == IndexNUL(k, 1)
      b == IF a = 0 THEN 0 ELSE IndexNUL(k, a + 1)
  IN IF a = 0 THEN <<k>>
     ELSE IF b = 0 THEN <<SubSeq(k, 1, a - 1), SubSeq(k, a + 1, Len(k))>>
     ELSE <<SubSeq(k, 1, a - 1), SubSeq(k, a + 1, b - 1), SubSeq(k, b + 1, Len(k))>>

\* the cursor loop of ListSecrets over bucket b from position j: allSecrets as
\* <<namespace, id>> -> value
RECURSIVE ListLoop(_, _, _, _, _)
ListLoop(b, keys, j, prefix, allSecrets) ==
  IF j > Len(keys) \/ ~HasPrefix(keys[j], prefix) THEN allSecrets
  ELSE LET parts == SplitN3(keys[j])
           d == Decrypt(key, b[keys[j]])
       IN IF Len(parts) # 3 \/ d.err # "ok"
            THEN ListLoop(b, keys, j + 1, prefix, allSecrets)
            ELSE ListLoop(b, keys, j + 1, prefix, Put(allSecrets, <<parts[2], parts[3]>>, d.msg))

\* Daemon.ListSecrets: it tests the lock flag only, so a nil handle is dereferenced
ListSecretsDB(clientName) ==
  LET prefix == clientName \o nullByte
      keys == SortedKeys(DOMAIN secrets)
  IN IF isLocked THEN [err |-> "locked", list |-> EmptyWritten]
     ELSE IF db = "nil" THEN [err |-> "panic", list |-> EmptyWritten]
     ELSE IF ~DBUsable THEN [err |-> "dbnotopen", list |-> EmptyWritten]
     ELSE [err |-> "ok", list |-> ListLoop(secrets, keys, Seek(keys, prefix), prefix, EmptyWritten)]

\* the cursor loop of ListNamespaces from position j: the namespace set
RECURSIVE NamespaceLoop(_, _, _, _)
NamespaceLoop(keys, j, prefix, namespaceSet) ==
  IF j > Len(keys) \/ ~HasPrefix(keys[j], prefix) THEN namespaceSet
  ELSE LET trimmedKey == SubSeq(keys[j], Len(prefix) + 1, Len(keys[j]))
           a == IndexNUL(trimmedKey, 1)
           part == IF a = 0 THEN trimmedKey ELSE SubSeq(trimmedKey, 1, a - 1)
       IN NamespaceLoop(keys, j + 1, prefix, namespaceSet \cup {part})

\* Daemon.ListNamespaces
ListNamespacesDB(clientName) ==
  LET prefix == clientName \o nullByte
      keys == SortedKeys(DOMAIN secrets)
  IN IF LockedOrNoDB THEN [err |-> "locked", list |-> {}]
     ELSE IF ~DBUsable THEN [err |-> "dbnotopen", list |-> {}]
     ELSE [err |-> "ok", list |-> NamespaceLoop(keys, Seek(keys, prefix), prefix, {})]

\* gaiaAdminServer.ListNamespaces
ListNamespacesRPC(clientName) ==
  IF isLocked THEN [err |-> "locked", list |-> {}]
  ELSE ListNamespacesDB(clientName)

ListNamespaces(clientName) ==
  /\ serving
  /\ ListNamespacesRPC(clientName).err \in ErrorKinds
  /\ UNCHANGED vars

\* Daemon.ListClients
ListClientsDB ==
  IF LockedOrNoDB THEN [err |-> "locked", list |-> {}]
  ELSE IF ~DBUsable THEN [err |-> "dbnotopen", list |-> {}]
  ELSE [err |-> "ok", list |-> clients]

\* gaiaAdminServer.ListClients
ListClientsRPC ==
  IF isLocked THEN [err |-> "locked", list |-> {}]
  ELSE ListClientsDB

ListClients ==
  /\ serving
  /\ ListClientsRPC.err \in ErrorKinds
  /\ UNCHANGED vars

(***************************************************************************)
(* Import streams the model sends.                                         *)
(***************************************************************************)
NoItem == [client |-> NoBytes, ns |-> NoBytes, id |-> NoBytes, value |-> ""]
ConfigFrame(overwrite) == [kind |-> "config", overwrite |-> overwrite, item |-> NoItem]
ItemFrame(it) == [kind |-> "item", overwrite |-> FALSE, item |-> it]

RECURSIVE SeqsUpTo(_, _)
SeqsUpTo(S, n) ==
  IF n = 0 THEN {<<>>}
  ELSE LET shorter == SeqsUpTo(S, n - 1)
       IN shorter \cup {Append(q, x) : q \in {r \in shorter : Len(r) = n - 1}, x \in S}

\* a config frame followed by up to MaxBatch item frames
OrderedStreams ==
  {<<c>> \o q : c \in {ConfigFrame(o) : o \in BOOLEAN},
                q \in SeqsUpTo({ItemFrame(it) : it \in ImportItems}, MaxBatch)}

\* streams that break the frame order
MisorderedStreams ==
  LET it == CHOOSE f \in {ItemFrame(x) : x \in ImportItems} : TRUE
  IN {<<>>, <<it>>, <<ConfigFrame(TRUE), ConfigFrame(FALSE)>>,
      <<ConfigFrame(TRUE), it, ConfigFrame(TRUE)>>}

Streams == OrderedStreams \cup MisorderedStreams

Next ==
  \/ \E p \in InitPassphrases, s \in Salts : InitializeDB(p, s)
  \/ \E t \in BOOLEAN, l \in BOOLEAN : Start(t, l)
  \/ \E p \in Passphrases : Unlock(p)
  \/ Lock
  \/ Stop
  \/ CAFilesChange
  \/ \E c \in ClientNames : RegisterClient(c)
  \/ \E c \in ClientNames : RevokeClient(c)
  \/ \E c \in ClientNames, n \in Namespaces, i \in Ids, v \in Values, nc \in Nonces :
       AddSecret(c, n, i, v, nc)
  \/ \E pc \in PeerCertificates, n \in Namespaces, i \in Ids : GetSecret(pc, n, i)
  \/ \E c \in ClientNames, n \in Namespaces, i \in Ids : DeleteSecret(c, n, i)
  \/ \E c \in ClientNames : ListNamespaces(c)
  \/ ListClients
  \/ \E f \in Streams, nc \in [1..MaxBatch -> Nonces] : ImportSecrets(f, nc)

Spec == Init /\ [][Next]_vars

(***************************************************************************)
(* RPCs served at the same time: each handler and Daemon method as the     *)
(* steps it takes before, between and after the calls on dbLock.           *)
(***************************************************************************)
\* the RPCs the goroutines run; the store RPCs carry <<web-a, web-a, db_url>>
Ops ==
  {"AddSecret", "GetSecret", "ListSecrets", "ImportSecrets", "RegisterClient",
   "Lock", "Unlock", "Stop"}
\* the batch of the concurrent ImportSecrets
callItems == <<[client |-> webA, ns |-> webA, id |-> dbUrl, value |-> "y"]>>
\* Daemon.key after the wipe loop of LockDB: the same buffer, all zero
zeroized == <<"zeroized">>

\* the first step of an RPC: the handler's test of isLocked, the RLock or Lock
\* of the Daemon method, or the close of the stop channel
FirstPc(op) ==
  CASE op \in {"AddSecret", "ImportSecrets", "RegisterClient", "ListNamespaces"} -> "handler"
    [] op \in {"GetSecret", "ListSecrets"} -> "rlock"
    [] op \in {"Lock", "Unlock"} -> "wlock"
    [] OTHER -> "stop"

\* fault: a read lock that is granted while a writer holds the mutex
CanRLockNoWriterTest == TRUE

\* sync.RWMutex: RLock waits for the writer, Lock for the writer and the readers
CanRLock == dbLock.writer = "none"
CanLock == dbLock.writer = "none" /\ dbLock.readers = {}
\* RUnlock or Unlock by goroutine t
Release(t) ==
  [writer |-> IF dbLock.writer = t THEN "none" ELSE dbLock.writer,
   readers |-> dbLock.readers \ {t}]

\* goroutine t moves on to position pc
Goto(t, pc) == [calls EXCEPT ![t].pc = pc]
\* goroutine t returns ret, having passed the key `used` to Encrypt or Decrypt
Return(t, ret, used) ==
  [calls EXCEPT ![t].pc = "done", ![t].ret = ret, ![t].used = used, ![t].pass = ""]

\* a request reaches a server goroutine
Call(t, op, passphrase) ==
  /\ serving
  /\ stopChannel = "open"
  /\ calls[t].pc \in {"idle", "done"}
  /\ calls' = [calls EXCEPT ![t] =
                 [IdleCall EXCEPT !.op = op, !.pass = passphrase, !.pc = FirstPc(op)]]
  /\ UNCHANGED <<disk, caFiles, serving, daemon, initPass, written, resp, dbLock,
                 stopChannel>>
  /\ UNCHANGED rwtx

\* `if s.d.isLocked` of the AddSecret, ImportSecrets, RegisterClient and
\* ListNamespaces handlers: read without dbLock
HandlerCheck(t) ==
  /\ calls[t].pc = "handler"
  /\ calls' = IF isLocked THEN Return(t, "locked", NotUsed)
              ELSE Goto(t, CASE calls[t].op = "RegisterClient" -> "sign"
                             [] calls[t].op \in {"AddSecret", "ListNamespaces"} -> "rlock"
                             [] OTHER -> "wlock")
  /\ UNCHANGED <<disk, caFiles, serving, daemon, initPass, written, resp, dbLock,
                 stopChannel>>
  /\ UNCHANGED rwtx

\* GenerateClientCertificateData(req.ClientName, s.d.caCert, s.d.caKey) of the
\* RegisterClient handler: both fields read without dbLock
Sign(t) ==
  /\ calls[t].pc = "sign"
  /\ calls' = IF caKey /\ caCert THEN Goto(t, "wlock") ELSE Return(t, "panic", NotUsed)
  /\ UNCHANGED <<disk, caFiles, serving, daemon, initPass, written, resp, dbLock,
                 stopChannel>>
  /\ UNCHANGED rwtx

\* d.dbLock.RLock() of AddSecret, GetSecret, ListSecrets and ListNamespaces
RLock(t) ==
  /\ calls[t].pc = "rlock"
  /\ CanRLock
  /\ dbLock' = [dbLock EXCEPT !.readers = @ \cup {t}]
  /\ calls' = Goto(t, "check")
  /\ UNCHANGED <<disk, caFiles, serving, daemon, initPass, written, resp, stopChannel>>
  /\ UNCHANGED rwtx

\* d.dbLock.Lock() of ImportSecrets, RegisterClient, LockDB and UnlockDB
WLock(t) ==
  /\ calls[t].pc = "wlock"
  /\ CanLock
  /\ dbLock' = [dbLock EXCEPT !.writer = t]
  /\ calls' = Goto(t, CASE calls[t].op = "Lock" -> "close"
                        [] calls[t].op = "Unlock" -> "open"
                        [] OTHER -> "check")
  /\ UNCHANGED <<disk, caFiles, serving, daemon, initPass, written, resp, stopChannel>>
  /\ UNCHANGED rwtx

\* the first test of a Daemon method, made under dbLock: ListSecrets tests
\* isLocked, GetSecret isLocked and then d.db == nil, the others both at once
MethodCheck(t) ==
  /\ calls[t].pc = "check"
  /\ LET op == calls[t].op
         rej == CASE op = "ListSecrets" -> IF isLocked THEN "locked" ELSE "ok"
                  [] op = "GetSecret" ->
                       IF isLocked THEN "locked" ELSE IF db = "nil" THEN "dbnotopen" ELSE "ok"
                  [] OTHER -> IF LockedOrNoDB THEN "locked" ELSE "ok"
     IN IF rej = "ok"
          THEN /\ calls' = [calls EXCEPT ![t].pc = "use", ![t].seen = <<isLocked, key>>]
               /\ dbLock' = dbLock
          ELSE /\ calls' = [calls EXCEPT ![t].pc = "done", ![t].ret = rej,
                                         ![t].seen = <<isLocked, key>>]
               /\ dbLock' = Release(t)
  /\ UNCHANGED <<disk, caFiles, serving, daemon, initPass, written, resp, stopChannel>>
  /\ UNCHANGED rwtx

\* Daemon.AddSecret after its test: Encrypt(d.key, value), db.Update, RUnlock
AddSecretUse(t, nonce) ==
  /\ calls[t].pc = "use" /\ calls[t].op = "AddSecret"
  /\ LET r == AddSecretDB(webA, webA, dbUrl, "x", nonce)
     IN /\ secrets' = r.secrets
        /\ written' = IF r.err = "ok" THEN Put(written, <<webA, webA, dbUrl>>, "x")
                      ELSE written
        /\ calls' = Return(t, r.err, key)
  /\ dbLock' = Release(t)
  /\ UNCHANGED <<dbFile, clients, caFiles, serving, daemon, initPass, resp, stopChannel>>
  /\ UNCHANGED rwtx

\* Daemon.GetSecret after its tests: db.View, Decrypt(d.key, value), RUnlock
GetSecretUse(t) ==
  /\ calls[t].pc = "use" /\ calls[t].op = "GetSecret"
  /\ LET r == GetSecretDB(secrets, webA, webA, dbUrl)
     IN calls' = Return(t, r.err, IF r.err \in {"ok", "integrity"} THEN key ELSE NotUsed)
  /\ dbLock' = Release(t)
  /\ UNCHANGED <<disk, caFiles, serving, daemon, initPass, written, resp, stopChannel>>
  /\ UNCHANGED rwtx

\* Daemon.ListSecrets after its test: the cursor loop with Decrypt(d.key, v), RUnlock
ListSecretsUse(t) ==
  /\ calls[t].pc = "use" /\ calls[t].op = "ListSecrets"
  /\ LET r == ListSecretsDB(webA)
         any == \E k \in DOMAIN secrets : HasPrefix(k, webA \o nullByte)
     IN calls' = Return(t, r.err, IF r.err = "ok" /\ any THEN key ELSE NotUsed)
  /\ dbLock' = Release(t)
  /\ UNCHANGED <<disk, caFiles, serving, daemon, initPass, written, resp, stopChannel>>
  /\ UNCHANGED rwtx

\* Daemon.ImportSecrets after its test: the transaction with Encrypt(d.key, v)
\* for each item, Unlock
ImportSecretsUse(t, nonces) ==
  /\ calls[t].pc = "use" /\ calls[t].op = "ImportSecrets"
  /\ LET r == ImportSecretsDB(callItems, nonces, TRUE)
     IN /\ secrets' = r.secrets
        /\ written' = IF r.err = "ok" THEN Put(written, <<webA, webA, dbUrl>>, "y")
                      ELSE written
        /\ calls' = Return(t, r.err, IF DBUsable THEN key ELSE NotUsed)
  /\ dbLock' = Release(t)
  /\ UNCHANGED <<dbFile, clients, caFiles, serving, daemon, initPass, resp, stopChannel>>
  /\ UNCHANGED rwtx

\* Daemon.RegisterClient after its test: db.Update, Unlock
RegisterClientUse(t) ==
  /\ calls[t].pc = "use" /\ calls[t].op = "RegisterClient"
  /\ LET r == RegisterClientDB(webA)
     IN /\ clients' = r.clients
        /\ calls' = Return(t, r.err, NotUsed)
  /\ dbLock' = Release(t)
  /\ UNCHANGED <<dbFile, secrets, caFiles, serving, daemon, initPass, written, resp,
                 stopChannel>>
  /\ UNCHANGED rwtx

\* LockDB: d.db.Close(); d.db = nil
LockClose(t) ==
  /\ calls[t].pc = "close"
  /\ db' = LockDB.db
  /\ calls' = Goto(t, "wipe")
  /\ UNCHANGED <<disk, caFiles, serving, status, isLocked, key, caKey, caCert, initPass,
                 written, resp, dbLock, stopChannel>>
  /\ UNCHANGED rwtx

\* LockDB: for i := range d.key { d.key[i] = 0 }
LockWipe(t) ==
  /\ calls[t].pc = "wipe"
  /\ key' = IF key = NoKey THEN NoKey ELSE zeroized
  /\ calls' = Goto(t, "drop")
  /\ UNCHANGED <<disk, caFiles, serving, status, isLocked, db, caKey, caCert, initPass,
                 written, resp, dbLock, stopChannel>>
  /\ UNCHANGED rwtx

\* LockDB: d.key = nil; d.isLocked = true; Unlock
LockDrop(t) ==
  /\ calls[t].pc = "drop"
  /\ key' = LockDB.key
  /\ isLocked' = LockDB.isLocked
  /\ calls' = Return(t, "ok", NotUsed)
  /\ dbLock' = Release(t)
  /\ UNCHANGED <<disk, caFiles, serving, status, db, caKey, caCert, initPass, written,
                 resp, stopChannel>>
  /\ UNCHANGED rwtx

\* UnlockDB: d.db.Close() when not nil, then openDB
UnlockOpen(t) ==
  /\ calls[t].pc = "open"
  /\ db' = "open"
  /\ calls' = Goto(t, "validate")
  /\ UNCHANGED <<disk, caFiles, serving, status, isLocked, key, caKey, caCert, initPass,
                 written, resp, dbLock, stopChannel>>
  /\ UNCHANGED rwtx

\* UnlockDB: salt and hash read, key derived and compared; d.key set on a match
UnlockValidate(t) ==
  /\ calls[t].pc = "validate"
  /\ LET derivedKey == DeriveKey(calls[t].pass, secrets[saltKey].raw)
     IN IF Sum256(derivedKey) # secrets[keyHashKey].raw
          THEN /\ db' = "closed"
               /\ key' = key
               /\ calls' = Return(t, "invalidpass", NotUsed)
               /\ dbLock' = Release(t)
          ELSE /\ db' = db
               /\ key' = derivedKey
               /\ calls' = Goto(t, "loadca")
               /\ dbLock' = dbLock
  /\ UNCHANGED <<disk, caFiles, serving, status, isLocked, caKey, caCert, initPass,
                 written, resp, stopChannel>>
  /\ UNCHANGED rwtx

\* UnlockDB: loadCACredentials, and the cleanup when it fails
UnlockLoadCA(t) ==
  /\ calls[t].pc = "loadca"
  /\ LET ca == loadCACredentials
     IN /\ caKey' = ca.caKey
        /\ caCert' = ca.caCert
        /\ IF ca.err # "ok"
             THEN /\ db' = "nil"
                  /\ key' = NoKey
                  /\ calls' = Return(t, "caload", NotUsed)
                  /\ dbLock' = Release(t)
             ELSE /\ db' = db
                  /\ key' = key
                  /\ calls' = Goto(t, "flags")
                  /\ dbLock' = dbLock
  /\ UNCHANGED <<disk, caFiles, serving, status, isLocked, initPass, written, resp,
                 stopChannel>>
  /\ UNCHANGED rwtx

\* UnlockDB: d.isLocked = false; d.status = StatusRunning; Unlock
UnlockFlags(t) ==
  /\ calls[t].pc = "flags"
  /\ isLocked' = FALSE
  /\ status' = StatusRunning
  /\ calls' = Return(t, "ok", NotUsed)
  /\ dbLock' = Release(t)
  /\ UNCHANGED <<disk, caFiles, serving, db, key, caKey, caCert, initPass, written, resp,
                 stopChannel>>
  /\ UNCHANGED rwtx

\* gaiaAdminServer.Stop: close(s.d.stopChannel), which panics on a closed channel
StopRPC(t) ==
  /\ calls[t].pc = "stop"
  /\ stopChannel' = "closed"
  /\ calls' = Return(t, IF stopChannel = "open" THEN "ok" ELSE "panic", NotUsed)
  /\ UNCHANGED <<disk, caFiles, serving, daemon, initPass, written, resp, dbLock>>
  /\ UNCHANGED rwtx

\* Start after its select: GracefulStop has waited for the running RPCs, then
\* d.status = StatusStopped; d.db.Close(), without dbLock
Shutdown ==
  /\ serving
  /\ stopChannel = "closed"
  /\ \A t \in Threads : calls[t].pc \in {"idle", "done"}
  /\ serving' = FALSE
  /\ status' = StatusStopped
  /\ db' = IF db = "nil" THEN db ELSE "closed"
  /\ resp' = Resp("Stop", IF db = "nil" THEN "panic" ELSE "ok")
  /\ UNCHANGED <<disk, caFiles, isLocked, key, caKey, caCert, initPass, written, dbLock,
                 calls, stopChannel>>
  /\ UNCHANGED rwtx

NextConcurrent ==
  \/ \E p \in InitPassphrases, s \in Salts : InitializeDB(p, s)
  \/ \E t \in BOOLEAN, l \in BOOLEAN : Start(t, l)
  \/ CAFilesChange
  \/ \E t \in Threads, op \in Ops, p \in Passphrases :
       Call(t, op, IF op = "Unlock" THEN p ELSE "")
  \/ \E t \in Threads : HandlerCheck(t)
  \/ \E t \in Threads : Sign(t)
  \/ \E t \in Threads : RLock(t)
  \/ \E t \in Threads : WLock(t)
  \/ \E t \in Threads : MethodCheck(t)
  \/ \E t \in Threads, nc \in Nonces : AddSecretUse(t, nc)
  \/ \E t \in Threads : GetSecretUse(t)
  \/ \E t \in Threads : ListSecretsUse(t)
  \/ \E t \in Threads, nc \in [1..MaxBatch -> Nonces] : ImportSecretsUse(t, nc)
  \/ \E t \in Threads : RegisterClientUse(t)
  \/ \E t \in Threads : LockClose(t)
  \/ \E t \in Threads : LockWipe(t)
  \/ \E t \in Threads : LockDrop(t)
  \/ \E t \in Threads : UnlockOpen(t)
  \/ \E t \in Threads : UnlockValidate(t)
  \/ \E t \in Threads : UnlockLoadCA(t)
  \/ \E t \in Threads : UnlockFlags(t)
  \/ \E t \in Threads : StopRPC(t)
  \/ Shutdown

ConcurrentSpec == Init /\ [][NextConcurrent]_vars

(***************************************************************************)
(* One bulk import followed through its write transaction, item by item,   *)
(* while other goroutines read.                                            *)
(***************************************************************************)
\* the RPCs the goroutines run here
ImportOps == {"ImportSecrets", "GetSecret", "ListSecrets", "ListNamespaces"}
\* the batch of the import
batchItems ==
  <<[client |-> webA, ns |-> webA, id |-> dbUrl, value |-> "x"],
    [client |-> webA, ns |-> prod, id |-> dbUrl, value |-> "y"]>>

\* no RPC is running and no import was begun
Quiet ==
  /\ rwtx = NoTx
  /\ dbLock = NoLock
  /\ \A t \in Threads : calls[t].pc \in {"idle", "done"}

\* Unlock requests answered before the import
SetupUnlock(passphrase) == Quiet /\ Unlock(passphrase)

\* secrets of web-a written before the import
SetupAddSecret(namespace, value, nonce) ==
  Quiet /\ AddSecret(webA, namespace, dbUrl, value, nonce)

\* Daemon.ListNamespaces after its test: db.View with the cursor loop, RUnlock
ListNamespacesUse(t) ==
  /\ calls[t].pc = "use" /\ calls[t].op = "ListNamespaces"
  /\ calls' = Return(t, ListNamespacesDB(webA).err, NotUsed)
  /\ dbLock' = Release(t)
  /\ UNCHANGED <<disk, caFiles, serving, daemon, initPass, written, resp, stopChannel,
                 rwtx>>

\* Daemon.ImportSecrets after its test: d.db.Update begins the write
\* transaction (ErrDatabaseNotOpen on a closed handle)
ImportBegin(t, overwrite) ==
  /\ calls[t].pc = "use" /\ calls[t].op = "ImportSecrets"
  /\ IF DBUsable
       THEN /\ rwtx' = [state |-> "open", before |-> secrets, b |-> secrets, j |-> 1,
                        overwrite |-> overwrite]
            /\ calls' = Goto(t, "item")
            /\ dbLock' = dbLock
       ELSE /\ rwtx' = rwtx
            /\ calls' = Return(t, "dbnotopen", NotUsed)
            /\ dbLock' = Release(t)
  /\ UNCHANGED <<disk, caFiles, serving, daemon, initPass, written, resp, stopChannel>>

\* one pass of the loop of Daemon.ImportSecrets inside the transaction; an
\* error returned by the function ends the transaction, then Unlock
ImportItem(t, nonce) ==
  /\ calls[t].pc = "item"
  /\ rwtx.j <= Len(batchItems)
  /\ LET tx == ImportLoop(rwtx.b, <<batchItems[rwtx.j]>>, <<nonce>>, 1, rwtx.overwrite,
                          rwtx.j - 1)
     IN IF tx.err = "ok"
          THEN /\ rwtx' = [rwtx EXCEPT !.b = tx.b, !.j = @ + 1]
               /\ secrets' = secrets
               /\ calls' = calls
               /\ dbLock' = dbLock
          ELSE /\ rwtx' = [rwtx EXCEPT !.state = "rolledback", !.b = tx.b]
               /\ secrets' = Commit(rwtx.before, tx)
               /\ calls' = Return(t, tx.err, key)
               /\ dbLock' = Release(t)
  /\ UNCHANGED <<dbFile, clients, caFiles, serving, daemon, initPass, written, resp,
                 stopChannel>>

\* the function of the transaction returned nil: commit, then Unlock
ImportCommit(t) ==
  /\ calls[t].pc = "item"
  /\ rwtx.j > Len(batchItems)
  /\ secrets' = Commit(rwtx.before, [err |-> "ok", b |-> rwtx.b])
  /\ rwtx' = [rwtx EXCEPT !.state = "committed"]
  /\ LET at(j) == <<batchItems[j].client, batchItems[j].ns, batchItems[j].id>>
         ts == {at(j) : j \in 1..Len(batchItems)}
         last(u) == CHOOSE j \in 1..Len(batchItems) :
                      at(j) = u /\ \A h \in (j + 1)..Len(batchItems) : at(h) # u
     IN written' = [u \in DOMAIN written \cup ts |->
                      IF u \in ts THEN batchItems[last(u)].value ELSE written[u]]
  /\ calls' = Return(t, "ok", key)
  /\ dbLock' = Release(t)
  /\ UNCHANGED <<dbFile, clients, caFiles, serving, daemon, initPass, resp, stopChannel>>

NextImport ==
  \/ \E p \in InitPassphrases, s \in Salts : InitializeDB(p, s)
  \/ \E t \in BOOLEAN, l \in BOOLEAN : Start(t, l)
  \/ \E p \in Passphrases : SetupUnlock(p)
  \/ \E n \in {webA, prod}, v \in Values, nc \in Nonces : SetupAddSecret(n, v, nc)
  \/ \E t \in Threads, op \in ImportOps : Call(t, op, "")
  \/ \E t \in Threads : HandlerCheck(t)
  \/ \E t \in Threads : RLock(t)
  \/ \E t \in Threads : WLock(t)
  \/ \E t \in Threads : MethodCheck(t)
  \/ \E t \in Threads : GetSecretUse(t)
  \/ \E t \in Threads : ListSecretsUse(t)
  \/ \E t \in Threads : ListNamespacesUse(t)
  \/ \E t \in Threads, o \in BOOLEAN : ImportBegin(t, o)
  \/ \E t \in Threads, nc \in Nonces : ImportItem(t, nc)
  \/ \E t \in Threads : ImportCommit(t)

ImportSpec == Init /\ [][NextImport]_vars

(***************************************************************************)
(* Properties.                                                             *)
(***************************************************************************)
\* the unlocked state: the lock flag is clear and the master key is in memory
\* the nonce the formulas below draw for a write
nonce1 == [j \in 1..NonceSize |-> 1]

Unlocked == ~isLocked /\ key # NoKey

\* the certificate CNs the client service is called with
Callers == {pc[1] : pc \in PeerCertificates \ {<<>>}}

\* the secrets buckets that differ from the current one in one user secret:
\* one removed, or one added or replaced
OtherStores ==
  {Delete(secrets, k) : k \in UserKeys(secrets)}
  \cup {Put(secrets, constructDBKey(c, n, i), Encrypt(key, v, nc).enc) :
          c \in ClientNames, n \in Namespaces, i \in Ids, v \in Values, nc \in Nonces}

\* C1: once AddSecret(c, n, k, v) has succeeded for a registered client c and
\* the secret was not deleted, overwritten or revoked since, GetSecret(n, k)
\* with c's certificate returns v on the unlocked daemon, for every namespace
\* n (stated for the clients other than common and the namespaces other than
\* common, and for a database handle that is open).
C1_GetAfterAdd ==
  \A t \in DOMAIN written :
    (/\ serving /\ Unlocked /\ DBUsable
     /\ t[1] \in clients /\ t[1] # commonNamespace /\ t[2] # commonNamespace)
    => GetSecretRPC(<<t[1]>>, t[2], t[3]) = [err |-> "ok", val |-> written[t]]

C3_NoForeignPlaintext ==
  \A a \in Callers, n \in Namespaces, i \in Ids :
    LET r == GetSecretRPC(<<a>>, n, i)
        owner == IF n = commonNamespace THEN commonNamespace ELSE a
    IN r.err = "ok" =>
         /\ <<owner, n, i>> \in DOMAIN written
         /\ r.val = written[<<owner, n, i>>]

\* C3: web-a holds a secret, common holds another value, and the caller web-b
\* is served the common one and refused web-a's
C3_Witness ==
  /\ serving /\ Unlocked
  /\ <<webA, webA, dbUrl>> \in DOMAIN written
  /\ <<commonNamespace, commonNamespace, dbUrl>> \in DOMAIN written
  /\ written[<<webA, webA, dbUrl>>] # written[<<commonNamespace, commonNamespace, dbUrl>>]
  /\ GetSecretRPC(<<webB>>, commonNamespace, dbUrl).err = "ok"
  /\ GetSecretRPC(<<webB>>, webA, dbUrl).err # "ok"

\* C4: after the admin's AddSecret(common, common, k, v), GetSecret(common, k)
\* from every registered client returns v for as long as the daemon is
\* unlocked and the secret is in place.
C4_CommonReadableByAll ==
  \A c \in clients, i \in Ids :
    (serving /\ Unlocked /\ <<commonNamespace, commonNamespace, i>> \in DOMAIN written)
    => GetSecretRPC(<<c>>, commonNamespace, i)
         = [err |-> "ok", val |-> written[<<commonNamespace, commonNamespace, i>>]]

\* every request that needs the master key is answered with an error and
\* would leave both buckets as they are
AllRejected ==
  /\ \A c \in ClientNames :
       /\ RegisterClientRPC(c).err # "ok" /\ RegisterClientRPC(c).clients = clients
       /\ RevokeClientRPC(c).err # "ok" /\ RevokeClientRPC(c).clients = clients
       /\ RevokeClientRPC(c).secrets = secrets
       /\ ListSecretsDB(c).err # "ok"
       /\ ListNamespacesRPC(c).err # "ok"
  /\ ListClientsRPC.err # "ok"
  /\ \A c \in ClientNames, n \in Namespaces, i \in Ids :
       /\ \A v \in Values, nc \in Nonces :
            /\ AddSecretRPC(c, n, i, v, nc).err # "ok"
            /\ AddSecretRPC(c, n, i, v, nc).secrets = secrets
       /\ DeleteSecretRPC(c, n, i).err # "ok"
       /\ DeleteSecretRPC(c, n, i).secrets = secrets
  /\ \A pc \in PeerCertificates, n \in Namespaces, i \in Ids :
       GetSecretRPC(pc, n, i).err # "ok"
  /\ \A f \in Streams, nc \in [1..MaxBatch -> Nonces] :
       /\ ImportSecretsRPC(f, nc).err # "ok"
       /\ ImportSecretsRPC(f, nc).secrets = secrets

StartedLocked ==
  /\ serving /\ isLocked /\ key = NoKey
  /\ \A pc \in PeerCertificates \ {<<>>}, n \in Namespaces, i \in Ids :
       GetSecretRPC(pc, n, i).err = "locked"

C7_WrongPassphraseNoChange ==
  [][(serving /\ Unlocked /\ resp' = Resp("Unlock", "invalidpass")) => daemon' = daemon]_vars

C9_RevokeRemovesAll ==
  /\ [](\A c \in ClientNames :
          LET r == RevokeClientRPC(c)
          IN r.err = "ok" =>
               /\ c \notin r.clients
               /\ \A k \in DOMAIN r.secrets : ~HasPrefix(k, c \o <<NUL>>))
  /\ [][\A c \in ClientNames :
          (c \in clients /\ c \notin clients') =>
            \A k \in DOMAIN secrets' : ~HasPrefix(k, c \o <<NUL>>)]_vars

\* C9: web-a is registered and holds two secrets when it is revoked
C9_Witness ==
  /\ serving /\ webA \in clients
  /\ Cardinality({k \in DOMAIN secrets : HasPrefix(k, webA \o <<NUL>>)}) >= 2
  /\ RevokeClientRPC(webA).err = "ok"

\* the position of the last item of a batch that has the key of item j
LastFor(items, j) ==
  CHOOSE h \in j..Len(items) :
    /\ constructDBKey(items[h].client, items[h].ns, items[h].id)
         = constructDBKey(items[j].client, items[j].ns, items[j].id)
    /\ \A g \in (h + 1)..Len(items) :
         constructDBKey(items[g].client, items[g].ns, items[g].id)
           # constructDBKey(items[j].client, items[j].ns, items[j].id)

\* C10: an ImportSecrets that fails leaves the secrets bucket as it was and
\* reports 0 imported; one that succeeds reports every item and stores every
\* item under its key (the last value given for a key), other keys untouched.
C10_ImportAllOrNothing ==
  \A f \in Streams, nc \in [1..MaxBatch -> Nonces] :
    LET r == ImportSecretsRPC(f, nc)
        items == FrameItems(f)
        keyOf(j) == constructDBKey(items[j].client, items[j].ns, items[j].id)
    IN /\ r.err # "ok" => (r.secrets = secrets /\ r.count = 0)
       /\ r.err = "ok" =>
            /\ r.count = Len(items)
            /\ \A j \in 1..Len(items) :
                 /\ keyOf(j) \in DOMAIN r.secrets
                 /\ Decrypt(key, r.secrets[keyOf(j)])
                      = [err |-> "ok", msg |-> items[LastFor(items, j)].value]
            /\ \A k \in DOMAIN secrets \ {keyOf(j) : j \in 1..Len(items)} :
                 k \in DOMAIN r.secrets /\ r.secrets[k] = secrets[k]

\* C10: a batch whose second item is refused after its first was written in
\* the transaction
C10_Witness ==
  /\ serving /\ Unlocked /\ DBUsable
  /\ \E f \in OrderedStreams, nc \in [1..MaxBatch -> Nonces] :
       /\ Len(f) = 3
       /\ constructDBKey(f[2].item.client, f[2].item.ns, f[2].item.id) \notin DOMAIN secrets
       /\ ImportSecretsRPC(f, nc).err = "conflict"

\* the key of item j of a batch
ItemKey(items, j) == constructDBKey(items[j].client, items[j].ns, items[j].id)

\* the positions of a batch whose key is already in the secrets bucket
Collisions(items) == {j \in 1..Len(items) : ItemKey(items, j) \in DOMAIN secrets}

\* C11: on the unlocked daemon an import with overwrite = false in which some
\* item's key is already stored fails as a conflict and writes nothing, and
\* the error names the first such item when no key repeats in the batch
\* before it; the same items with overwrite = true succeed and every stored
\* key of the batch then holds the imported value.
C11_OverwriteDecidesCollision ==
  (serving /\ Unlocked /\ DBUsable) =>
    \A f \in OrderedStreams, nc \in [1..MaxBatch -> Nonces] :
      LET items == FrameItems(f)
          first == CHOOSE j \in Collisions(items) : \A h \in Collisions(items) : j <= h
          repeated == \E g \in 1..Len(items), h \in 1..Len(items) :
                        g < h /\ h < first /\ ItemKey(items, g) = ItemKey(items, h)
          no == ImportSecretsRPC(<<ConfigFrame(FALSE)>> \o Tail(f), nc)
          yes == ImportSecretsRPC(<<ConfigFrame(TRUE)>> \o Tail(f), nc)
      IN Collisions(items) # {} =>
           /\ no.err = "conflict" /\ no.secrets = secrets /\ no.count = 0
           /\ ~repeated => ImportLoop(secrets, items, nc, 1, FALSE, 0).at = first
           /\ yes.err = "ok"
           /\ \A j \in 1..Len(items) :
                Decrypt(key, yes.secrets[ItemKey(items, j)]).msg
                  = items[LastFor(items, j)].value

\* C11: a two-item batch whose second item is stored with another value
C11_Witness ==
  /\ serving /\ Unlocked /\ DBUsable
  /\ \E f \in OrderedStreams, nc \in [1..MaxBatch -> Nonces] :
       /\ Len(f) = 3
       /\ Collisions(FrameItems(f)) = {2}
       /\ Decrypt(key, secrets[ItemKey(FrameItems(f), 2)]).msg # f[3].item.value
       /\ ImportSecretsRPC(<<ConfigFrame(FALSE)>> \o Tail(f), nc).err = "conflict"
       /\ ImportSecretsRPC(<<ConfigFrame(TRUE)>> \o Tail(f), nc).err = "ok"

\* a stream that breaks the frame order: its first frame is an item, or it
\* carries a config frame after the first frame
Misordered(f) ==
  \/ Len(f) > 0 /\ f[1].kind = "item"
  \/ \E j \in 2..Len(f) : f[j].kind = "config"

\* C12: a stream that breaks the frame order is answered with an error and
\* none of its secrets is written (on the unlocked daemon the error is the one
\* of the frame check); a stream is accepted only as a config frame followed
\* by item frames, and its one answer accounts for every frame up to the end
\* of the stream.
C12_StreamOrder ==
  \A f \in Streams, nc \in [1..MaxBatch -> Nonces] :
    LET r == ImportSecretsRPC(f, nc)
    IN /\ Misordered(f) => (r.err # "ok" /\ r.secrets = secrets /\ r.count = 0)
       /\ (Misordered(f) /\ serving /\ Unlocked /\ DBUsable)
            => r.err = (IF f[1].kind = "item" THEN "noconfig" ELSE "noitem")
       /\ r.err = "ok" =>
            /\ f[1].kind = "config"
            /\ \A j \in 2..Len(f) : f[j].kind = "item"
            /\ r.count = Len(f) - 1

\* C12: a config frame arrives after an item that is not yet stored
C12_Witness ==
  /\ serving /\ Unlocked /\ DBUsable
  /\ \E f \in MisorderedStreams, nc \in [1..MaxBatch -> Nonces] :
       /\ Len(f) = 3 /\ f[2].kind = "item" /\ f[3].kind = "config"
       /\ constructDBKey(f[2].item.client, f[2].item.ns, f[2].item.id) \notin DOMAIN secrets
       /\ ImportSecretsRPC(f, nc).err = "noitem"

\* C13: the client component of every key of the secrets bucket, the two
\* metadata keys apart, has an entry in the clients bucket.
C13_WritesOnlyForRegistered ==
  \A k \in UserKeys(secrets) : SplitN3(k)[1] \in clients

\* C14: once the database is initialized the clients bucket has an entry for
\* common.
C14_CommonAlwaysRegistered ==
  dbFile => commonNamespace \in clients

\* the reserved entries of a secrets bucket: the salt and the key hash
Reserved(b) == [k \in {saltKey, keyHashKey} \cap DOMAIN b |-> b[k]]

\* names chosen to reach the reserved keys: empty and the reserved keys
\* themselves, next to an ordinary name
HostileNames == {<<>>, saltKey, keyHashKey, webA}

\* C15: the salt and the key hash are created by Init only and no step
\* changes or deletes them afterwards; no AddSecret, DeleteSecret,
\* RevokeClient or ImportSecrets, whatever client, namespace and id it is
\* given, would create, change or delete either of them.
C15_ReservedKeysImmutable ==
  /\ [](\A c \in HostileNames :
          /\ Reserved(RevokeClientRPC(c).secrets) = Reserved(secrets)
          /\ \A n \in HostileNames, i \in HostileNames :
               LET item == [client |-> c, ns |-> n, id |-> i, value |-> "x"]
                   nc == [j \in 1..MaxBatch |-> nonce1]
               IN /\ Reserved(AddSecretRPC(c, n, i, "x", nonce1).secrets) = Reserved(secrets)
                  /\ Reserved(DeleteSecretRPC(c, n, i).secrets) = Reserved(secrets)
                  /\ Reserved(ImportSecretsRPC(<<ConfigFrame(TRUE), ItemFrame(item)>>,
                                               nc).secrets) = Reserved(secrets))
  /\ [][Reserved(secrets') # Reserved(secrets) => (~dbFile /\ resp' = Resp("Init", "ok"))]_vars
  /\ [](dbFile => DOMAIN Reserved(secrets) = {saltKey, keyHashKey})

\* C15: an AddSecret whose client is the salt key itself, with empty namespace
\* and id, is accepted and stored beside the salt
C15_Witness ==
  /\ serving /\ Unlocked /\ DBUsable
  /\ AddSecretRPC(saltKey, <<>>, <<>>, "x", nonce1).err = "ok"
  /\ UserKeys(secrets) # {}

\* C16: whenever the daemon is locked or stopped its key field holds no key
\* material.
C16_KeyOnlyWhileUnlocked ==
  (isLocked \/ status = StatusStopped) => key = NoKey

\* C17: after a Lock, and until an Unlock succeeds, the daemon holds neither
\* the CA private key nor the CA certificate.
C17_LockDropsCA ==
  resp = Resp("Lock", "ok") => (~caKey /\ ~caCert)

\* C18: a Stop accepted by the running daemon, locked or unlocked, ends
\* without a panic with the database closed, the master key gone from the
\* key field and the status stopped.
C18_StopCleansUp ==
  resp.op = "Stop" =>
    /\ resp.err = "ok"
    /\ status = StatusStopped
    /\ db = "closed"
    /\ key = NoKey

\* names ValidateName rejects: empty, with the NUL delimiter ("a\x00b"),
\* upper case ("Web"), a leading hyphen ("-a"), 64 characters
RejectedNames ==
  {<<>>, <<97, NUL, 98>>, <<87, 101, 98>>, <<45, 97>>, [j \in 1..64 |-> 97]}

\* C19: RegisterClient, AddSecret and ImportSecrets reject every client,
\* namespace or id that ValidateName rejects, and every name in the clients
\* bucket and every component of a key in the secrets bucket passes
\* ValidateName.
C19_GrammarEnforced ==
  /\ \A bad \in RejectedNames :
       LET nc == [j \in 1..MaxBatch |-> nonce1]
           item(c, n, i) == ItemFrame([client |-> c, ns |-> n, id |-> i, value |-> "x"])
       IN /\ ~ValidateName(bad)
          /\ RegisterClientRPC(bad).err # "ok"
          /\ AddSecretRPC(bad, webA, dbUrl, "x", nonce1).err # "ok"
          /\ AddSecretRPC(webA, bad, dbUrl, "x", nonce1).err # "ok"
          /\ AddSecretRPC(webA, webA, bad, "x", nonce1).err # "ok"
          /\ ImportSecretsRPC(<<ConfigFrame(TRUE), item(bad, webA, dbUrl)>>, nc).err # "ok"
          /\ ImportSecretsRPC(<<ConfigFrame(TRUE), item(webA, bad, dbUrl)>>, nc).err # "ok"
          /\ ImportSecretsRPC(<<ConfigFrame(TRUE), item(webA, webA, bad)>>, nc).err # "ok"
  /\ \A c \in clients : ValidateName(c)
  /\ \A k \in UserKeys(secrets) :
       Len(SplitN3(k)) = 3 /\ \A j \in 1..3 : ValidateName(SplitN3(k)[j])

\* C20: when the database file exists, InitializeDB with any passphrase fails
\* as already initialized and leaves the file as it is: salt, key hash,
\* clients and secrets.
C20_InitRefusesExisting ==
  dbFile =>
    \A p \in Passphrases \cup {""}, s \in Salts \cup {<<2>>} :
      LET r == InitializeDBFile(p, s)
      IN /\ r.err = "exists"
         /\ r.dbFile
         /\ r.secrets = secrets
         /\ r.clients = clients

\* C20: init was run again on a database that holds a client and a secret
C20_Witness ==
  /\ resp = Resp("Init", "exists")
  /\ dbFile /\ webA \in clients
  /\ UserKeys(secrets) # {}

\* passphrases under one of the two floors
WeakPassphrases == {"", "Ab1!xyz", "password"}

\* C21: InitializeDB with a passphrase shorter than 8 characters or of less
\* than 60 bits of estimated entropy fails as a weak passphrase and creates no
\* database file, salt or key hash.
C21_WeakPassphraseRejected ==
  \A p \in WeakPassphrases, s \in Salts :
    LET r == InitializeDBFile(p, s)
    IN /\ validatePassphrase(p) # "ok"
       /\ ~dbFile =>
            /\ r.err \notin {"ok", "exists"}
            /\ ~r.dbFile
            /\ r.secrets = secrets
            /\ r.clients = clients

\* C22: while no database file exists, Start fails as not initialized
\* whatever the TLS files and the port would allow, and leaves the daemon
\* stopped, serving nothing, with no database handle.
C22_StartNotInitialized ==
  /\ ~dbFile =>
       \A tlsOK \in BOOLEAN, flock \in BOOLEAN, listenOK \in BOOLEAN :
         LET r == StartDB(tlsOK, flock, listenOK)
         IN /\ r.err = "notinit"
            /\ r.status = StatusStopped
            /\ r.db = "nil"
  /\ ~dbFile => ~serving /\ status = StatusStopped /\ db = "nil"
  /\ resp = Resp("Start", "notinit") => ~dbFile

\* C22: Start was refused on a host with no database file
C22_Witness ==
  /\ resp = Resp("Start", "notinit")
  /\ ~dbFile /\ ~serving
  /\ status = StatusStopped /\ db = "nil"

\* every admin method but Unlock, GetStatus and Stop answers `locked` and
\* leaves the daemon and both buckets as they are
AdminRejectedAsLocked ==
  /\ \A c \in ClientNames :
       /\ RegisterClientRPC(c).err = "locked" /\ RegisterClientRPC(c).clients = clients
       /\ RevokeClientRPC(c).err = "locked" /\ RevokeClientRPC(c).clients = clients
       /\ RevokeClientRPC(c).secrets = secrets
       /\ ListSecretsDB(c).err = "locked"
       /\ ListNamespacesRPC(c).err = "locked"
  /\ ListClientsRPC.err = "locked"
  /\ \A c \in ClientNames, n \in Namespaces, i \in Ids :
       /\ \A v \in Values, nc \in Nonces :
            /\ AddSecretRPC(c, n, i, v, nc).err = "locked"
            /\ AddSecretRPC(c, n, i, v, nc).secrets = secrets
       /\ DeleteSecretRPC(c, n, i).err = "locked"
       /\ DeleteSecretRPC(c, n, i).secrets = secrets
  /\ \A f \in Streams, nc \in [1..MaxBatch -> Nonces] :
       /\ ImportSecretsRPC(f, nc).err = "locked"
       /\ ImportSecretsRPC(f, nc).secrets = secrets

\* C23: while the daemon is locked, Lock, RegisterClient, ListClients,
\* RevokeClient, AddSecret, DeleteSecret, ListSecrets, ListNamespaces and
\* ImportSecrets are all rejected as locked, return no data and leave both
\* buckets and the daemon as they are.
C23_LockedRejectsAdmin ==
  (serving /\ isLocked) =>
    /\ AdminRejectedAsLocked
    /\ LockRPC.err = "locked"
    /\ LockRPC.db = db

\* C24: on the unlocked daemon Unlock is refused whatever the passphrase, and
\* leaves the lock flag, the status, the database handle, the key and the CA
\* key and certificate as they are.
C24_UnlockOnlyWhenLocked ==
  (serving /\ Unlocked) =>
    \A p \in Passphrases :
      LET r == UnlockDB(p)
      IN /\ r.err # "ok"
         /\ r.db = db
         /\ r.key = key
         /\ r.caKey = caKey /\ r.caCert = caCert
         /\ r.isLocked = isLocked /\ r.status = status

\* the mapping <<namespace, id>> -> value that the writes recorded in w make
\* for client c
Listing(w, c) ==
  [p \in {<<t[2], t[3]>> : t \in {u \in DOMAIN w : u[1] = c}} |-> w[<<c, p[1], p[2]>>]]

\* what ListSecrets(c) reads from bucket b on the unlocked daemon
ListSecretsOf(b, c) ==
  LET prefix == c \o nullByte
      keys == SortedKeys(DOMAIN b)
  IN ListLoop(b, keys, Seek(keys, prefix), prefix, EmptyWritten)

\* names with an embedded NUL, which AddSecret accepts
NulNamespace == <<98, NUL, 99>>
NulClient == webA \o nullByte \o prod

\* C25: on the unlocked daemon ListSecrets(c) is exactly the mapping of the
\* writes made for c and still in place, last write first, and it stays so
\* after any further successful AddSecret: the new pair appears under its own
\* namespace and id in the list of its client and nowhere else.
C25_ListSecretsExact ==
  (serving /\ Unlocked /\ DBUsable) =>
    /\ \A c \in ClientNames :
         ListSecretsDB(c) = [err |-> "ok", list |-> Listing(written, c)]
    /\ \A c \in ClientNames \cup {NulClient}, n \in Namespaces \cup {NulNamespace},
          i \in Ids, v \in Values :
         LET r == AddSecretDB(c, n, i, v, nonce1)
             w == Put(written, <<c, n, i>>, v)
         IN r.err = "ok" =>
              \A d \in ClientNames \cup {c} : ListSecretsOf(r.secrets, d) = Listing(w, d)

\* C26: on the unlocked daemon DeleteSecret(c, n, id) succeeds whether or not
\* the key is there; afterwards GetSecret of c for (n, id) reports not found,
\* every other key of the secrets bucket is as before, and a second
\* DeleteSecret of the same triple changes nothing.
C26_DeleteIdempotent ==
  (serving /\ Unlocked /\ DBUsable) =>
    \A c \in ClientNames, n \in Namespaces, i \in Ids :
      LET r == DeleteSecretRPC(c, n, i)
          k == constructDBKey(c, n, i)
      IN /\ r.err = "ok"
         /\ k \notin DOMAIN r.secrets
         /\ \A x \in DOMAIN secrets \ {k} : x \in DOMAIN r.secrets /\ r.secrets[x] = secrets[x]
         /\ DOMAIN r.secrets \subseteq DOMAIN secrets
         /\ Delete(r.secrets, k) = r.secrets
         /\ GetSecretDB(r.secrets, c, n, i).err = "notfound"

\* keys of the right length: the key in memory and keys of other passphrases
Keys == {DeriveKey(p, s) : p \in Passphrases, s \in Salts}

\* inputs that are no envelope under the key: text that is not base64, base64
\* text of fewer bytes than a nonce, base64 text of a nonce and a bad tag
\* (envelopes of another key, with another nonce in front or with a byte
\* inserted are drawn in the formula)
Malformed ==
  {Raw(<<110, 111, 116, 45, 97>>), Blob(<<>>), Blob(<<0, 0, 0>>),
   Blob([j \in 1..(NonceSize + 16) |-> 0])}

\* C27: with the key in memory or any other key, Decrypt returns an error for
\* every input that is not an envelope sealed under that key: text that is not base64, a blob shorter than
\* the nonce, a tag that does not verify; it never succeeds with an empty
\* plaintext for them.
C27_DecryptFailsOnMalformed ==
  \A k \in (Keys \cup {key}) \ {NoKey} :
    /\ \A enc \in Malformed : Decrypt(k, enc).err # "ok"
    /\ \A k2 \in Keys \ {k}, m \in Values, nc \in Nonces :
         Decrypt(k, Encrypt(k2, m, nc).enc).err # "ok"
    /\ \A m \in Values, nc \in Nonces :
         /\ Decrypt(k, Seal(k, [j \in 1..NonceSize |-> 2], nc, m)).err # "ok"
         /\ Decrypt(k, Seal(k, nc \o <<0>>, nc, m)).err # "ok"

\* C28: for all keys k, k2 of the right length and every plaintext m,
\* Decrypt(k2, Encrypt(k, m)) is m when k2 = k and an error when k2 # k; so
\* every secret written and still in place decrypts to its plaintext under
\* the key in memory and under no other key.
C28_RoundTrip ==
  /\ \A k \in Keys, k2 \in Keys, m \in Values \cup {""}, nc \in Nonces \cup {[j \in 1..NonceSize |-> 2]} :
       LET e == Encrypt(k, m, nc)
           d == Decrypt(k2, e.enc)
       IN /\ e.err = "ok"
          /\ k2 = k => d = [err |-> "ok", msg |-> m]
          /\ k2 # k => d.err # "ok"
  /\ Unlocked =>
       \A t \in DOMAIN written :
         LET enc == secrets[constructDBKey(t[1], t[2], t[3])]
         IN /\ Decrypt(key, enc) = [err |-> "ok", msg |-> written[t]]
            /\ \A k2 \in Keys \ {key} : Decrypt(k2, enc).err # "ok"

\* C28: the unlocked daemon holds a secret sealed under the key in memory,
\* and a second key of the right length exists
C28_Witness ==
  /\ serving /\ Unlocked /\ key \in Keys
  /\ Keys \ {key} # {}
  /\ \E t \in DOMAIN written :
       secrets[constructDBKey(t[1], t[2], t[3])].key = key

\* the key derived from the passphrase of Init and the stored salt
MasterKey == DeriveKey(initPass, secrets[saltKey].raw)

\* the RPCs that pass Daemon.key to Encrypt or Decrypt
KeyOps == {"AddSecret", "GetSecret", "ListSecrets", "ImportSecrets"}

\* C29: however Lock and Unlock interleave with AddSecret, GetSecret,
\* ListSecrets and ImportSecrets, a call that has passed its locked-test holds
\* dbLock and finds the lock flag and the key it tested unchanged until it
\* returns; a call that tested a locked daemon is rejected as locked; the key
\* passed to Encrypt or Decrypt is the one tested, never the buffer LockDB has
\* zeroized; a call that succeeds used the master key; and every secret in the
\* bucket is sealed under the master key.
C29_ConsistentKey ==
  /\ \A t \in Threads :
       LET c == calls[t]
       IN /\ (c.pc = "use" /\ c.op \in KeyOps) =>
               /\ t \in dbLock.readers \/ dbLock.writer = t
               /\ <<isLocked, key>> = c.seen
               /\ ~isLocked
               /\ key # zeroized
          /\ (c.pc = "done" /\ c.op \in KeyOps /\ c.seen[1]) =>
               c.ret = "locked" /\ c.used = NotUsed
          /\ (c.pc = "done" /\ c.op \in KeyOps /\ c.used # NotUsed) =>
               /\ c.used = c.seen[2]
               /\ c.used # zeroized
               /\ c.ret = "ok" => c.used = MasterKey
          /\ (c.pc = "done" /\ c.op \in {"AddSecret", "ImportSecrets"} /\ c.ret = "ok") =>
               c.used = MasterKey
  /\ dbFile =>
       \A k \in UserKeys(secrets) :
         secrets[k].key = MasterKey /\ Decrypt(MasterKey, secrets[k]).err = "ok"

\* C29: AddSecret is between its locked-test and its Encrypt, holding the read
\* lock on the unlocked daemon, while a Lock request waits for dbLock
C29_Witness ==
  \E t \in Threads, u \in Threads :
    /\ calls[t].op = "AddSecret" /\ calls[t].pc = "use"
    /\ t \in dbLock.readers
    /\ key = MasterKey /\ ~isLocked
    /\ calls[u].op = "Lock" /\ calls[u].pc = "wlock"

\* goroutine u is inside LockDB or UnlockDB
InTransition(u) == dbLock.writer = u /\ calls[u].op \in {"Lock", "Unlock"}

\* C30: no handler reads the lock flag, and RegisterClient does not read the
\* CA certificate and key, while another goroutine is inside LockDB or
\* UnlockDB; and the shutdown path closes the database only when no goroutine
\* holds dbLock.
C30_TransitionsSerialized ==
  [][/\ \A t \in Threads :
          (calls[t].pc \in {"handler", "sign"} /\ calls'[t].pc # calls[t].pc)
            => \A u \in Threads \ {t} : ~InTransition(u)
     /\ (serving /\ ~serving') => dbLock = NoLock]_vars

\* the namespaces ListNamespaces(c) reads from bucket b
NamespacesOf(b, c) ==
  LET prefix == c \o nullByte
      keys == SortedKeys(DOMAIN b)
  IN NamespaceLoop(keys, Seek(keys, prefix), prefix, {})

\* what the three readers are answered from bucket b for web-a
Reads(b) ==
  [get |-> GetSecretDB(b, webA, webA, dbUrl),
   list |-> ListSecretsOf(b, webA),
   namespaces |-> NamespacesOf(b, webA)]

\* the RPCs that read the secrets bucket
Readers == {"GetSecret", "ListSecrets", "ListNamespaces"}

\* the readers are answered as before the batch
NoneVisible == Reads(secrets) = Reads(rwtx.before)

\* the readers are answered every item of the batch
AllVisible ==
  \A j \in 1..Len(batchItems) :
    LET it == batchItems[j]
        r == Reads(secrets)
    IN /\ <<it.ns, it.id>> \in DOMAIN r.list
       /\ r.list[<<it.ns, it.id>>] = it.value
       /\ it.ns \in r.namespaces
       /\ it.ns = webA => r.get = [err |-> "ok", val |-> it.value]

\* C31: once an import has begun its transaction, a GetSecret, ListSecrets or
\* ListNamespaces that has passed its locked-test is answered from a bucket
\* that shows none of the batch or all of it, whether the import is running,
\* has committed or has failed part way; and no reader is past its test while
\* the transaction is open.
C31_ImportAtomic ==
  \A t \in Threads :
    (calls[t].pc = "use" /\ calls[t].op \in Readers /\ rwtx.state # "none") =>
      /\ NoneVisible \/ AllVisible
      /\ rwtx.state # "open"

\* C31: a reader is about to read after an import failed at its second item,
\* the first having been written inside the transaction
C31_Witness ==
  \E t \in Threads :
    /\ calls[t].pc = "use" /\ calls[t].op \in Readers
    /\ rwtx.state = "rolledback" /\ rwtx.j = 2
    /\ constructDBKey(webA, webA, dbUrl) \in DOMAIN rwtx.b
    /\ constructDBKey(webA, webA, dbUrl) \notin DOMAIN secrets

\* stored values that are no envelope under the key in memory: the inputs of
\* Malformed and an envelope sealed under the key of another passphrase
Undecryptable ==
  Malformed \cup {Encrypt(k, "x", nonce1).enc : k \in Keys \ {key}}

\* the writes recorded in w without the one stored under key k
WithoutKey(w, k) ==
  [u \in {x \in DOMAIN w : constructDBKey(x[1], x[2], x[3]) # k} |-> w[u]]

\* C32: on the unlocked daemon, when the value stored under one key is
\* replaced by one that cannot be decrypted with the key in memory (not
\* base64, shorter than a nonce, a tag that does not verify, sealed under
\* another key), ListSecrets succeeds and returns, for every client, exactly
\* the other entries of that client.
C32_ListSkipsUndecryptable ==
  (serving /\ Unlocked /\ DBUsable) =>
    \A k \in UserKeys(secrets), bad \in Undecryptable :
      \A c \in ClientNames :
        /\ ListSecretsDB(c).err = "ok"
        /\ ListSecretsOf(Put(secrets, k, bad), c) = Listing(WithoutKey(written, k), c)

\* the serving daemon holds the lock of the database file: bbolt holds it
\* from Open to Close
FileLockHeld == db = "open"

\* C33: while a daemon is serving, locked or unlocked, it holds the lock of
\* the database file, so a second daemon process on the same file fails to
\* open it, in Start (whatever its port) and in Unlock; and a second process
\* never has the file open while the serving daemon has.
C33_FileLockWhileRunning ==
  serving =>
    /\ FileLockHeld
    /\ \A listenOK \in BOOLEAN : StartDB(TRUE, FileLockHeld, listenOK).err = "dbopen"
    /\ openDB(FileLockHeld).err = "timeout"
    /\ openDB(FileLockHeld).db = "open" => db # "open"

\* C34: no key of the secrets bucket has the client component common with a
\* namespace other than common; an admin AddSecret or import item with client
\* common and another namespace is rejected, or stored under the one key
\* common/common.
C34_CommonClientCanonical ==
  /\ \A k \in UserKeys(secrets) :
       SplitN3(k)[1] = commonNamespace => SplitN3(k)[2] = commonNamespace
  /\ \A n \in Namespaces \ {commonNamespace}, i \in Ids :
       LET a == AddSecretRPC(commonNamespace, n, i, "x", nonce1)
           item == [client |-> commonNamespace, ns |-> n, id |-> i, value |-> "x"]
           m == ImportSecretsRPC(<<ConfigFrame(TRUE), ItemFrame(item)>>,
                                 [j \in 1..MaxBatch |-> nonce1])
       IN /\ constructDBKey(commonNamespace, n, i) \in DOMAIN a.secrets
            => constructDBKey(commonNamespace, n, i) \in DOMAIN secrets
          /\ constructDBKey(commonNamespace, n, i) \in DOMAIN m.secrets
            => constructDBKey(commonNamespace, n, i) \in DOMAIN secrets

\* C35: whenever the serving daemon's lock flag is clear, its database handle
\* is open, the master key is in memory and the CA key and certificate are
\* loaded; so no operation that has passed the test of the lock flag
\* dereferences a nil handle, uses a closed one or encrypts with a nil key.
C35_UnlockedFlagMeansReady ==
  (serving /\ ~isLocked) =>
    /\ db = "open"
    /\ key # NoKey
    /\ caKey /\ caCert
    /\ \A c \in ClientNames : ListSecretsDB(c).err \notin {"panic", "dbnotopen"}
    /\ \A pc \in PeerCertificates \ {<<>>}, n \in Namespaces, i \in Ids :
         GetSecretRPC(pc, n, i).err # "dbnotopen"
    /\ \A c \in ClientNames, n \in Namespaces, i \in Ids :
         AddSecretRPC(c, n, i, "x", nonce1).err \notin {"encrypt", "dbnotopen"}

\* C36: a GetSecret that succeeds was sent by a caller whose certificate CN
\* has an entry in the clients bucket; and once RevokeClient(c) has succeeded,
\* GetSecret with c's certificate returns no secret, from c's namespace or
\* from common.
C36_GetSecretOnlyForRegistered ==
  /\ \A a \in Callers, n \in Namespaces, i \in Ids :
       GetSecretRPC(<<a>>, n, i).err = "ok" => a \in clients
  /\ \A c \in ClientNames \ {commonNamespace} :
       LET r == RevokeClientRPC(c)
       IN r.err = "ok" =>
            \A n \in Namespaces, i \in Ids : GetSecretDB(r.secrets, c, n, i).err # "ok"

\* C37: every Stop request returns without a panic, a second one that runs
\* next to the first included, and a daemon that is no longer serving after
\* Stop requests has the status stopped.
C37_StopRepeatable ==
  /\ \A t \in Threads :
       (calls[t].op = "Stop" /\ calls[t].pc = "done") => calls[t].ret = "ok"
  /\ (stopChannel = "closed" /\ ~serving /\ db # "nil") => status = StatusStopped

\* C38: when Start returns with an error - no database, TLS files, database
\* open, listen, or Serve failing while the daemon runs - it leaves the status
\* stopped and no open database handle; and the status is running only while
\* the daemon serves.
C38_StartReturnsStopped ==
  /\ \A tlsOK \in BOOLEAN, flock \in BOOLEAN, listenOK \in BOOLEAN :
       LET r == StartDB(tlsOK, flock, listenOK)
       IN r.err # "ok" => (r.status = StatusStopped /\ r.db # "open")
  /\ status = StatusRunning => serving
  /\ serving => (StartServeError.status = StatusStopped /\ StartServeError.db # "open")

\* "web"
web == <<119, 101, 98>>

\* what RevokeClient(c) leaves of a secrets bucket b
RevokeOf(b, c) ==
  LET prefix == c \o nullByte
      keys == SortedKeys(DOMAIN b)
  IN DeleteWhilePrefix(b, keys, Seek(keys, prefix), prefix)

\* C39: a RevokeClient(c) that succeeds removes c from the clients bucket and
\* nothing else from it, and leaves the salt, the key hash and every secret of
\* every other client as they are: common, a client whose name c is a proper
\* prefix of (web against web-a), and any other client AddSecret and
\* RegisterClient accept.
C39_RevokeFrame ==
  (serving /\ Unlocked /\ DBUsable) =>
    \A c \in {web, webA, commonNamespace} :
      LET r == RevokeClientRPC(c)
      IN /\ r.err = "ok"
         /\ r.clients = clients \ {c}
         /\ Reserved(r.secrets) = Reserved(secrets)
         /\ \A k \in UserKeys(secrets) :
              SplitN3(k)[1] # c => (k \in DOMAIN r.secrets /\ r.secrets[k] = secrets[k])
         /\ \A d \in {web, webA, commonNamespace, NulClient} \ {c}, n \in {prod}, i \in Ids :
              LET b == AddSecretDB(d, n, i, "x", nonce1).secrets
                  k == constructDBKey(d, n, i)
              IN /\ d \in RegisterClientDB(d).clients \ {c}
                 /\ k \in DOMAIN RevokeOf(b, c)
                 /\ RevokeOf(b, c)[k] = b[k]

\* every read is answered from the writes in place: GetSecret of a client for
\* its own namespace and for common, ListSecrets of every client, and the
\* clients bucket is listed as it is
ReadsAsWritten ==
  /\ \A t \in DOMAIN written :
       (t[2] = t[1] /\ <<t[1]>> \in PeerCertificates) =>
         GetSecretRPC(<<t[1]>>, t[2], t[3]) = [err |-> "ok", val |-> written[t]]
  /\ \A a \in Callers, n \in Namespaces, i \in Ids :
       GetSecretRPC(<<a>>, n, i).err \in {"ok", "notfound", "unauthorized"}
  /\ \A c \in ClientNames : ListSecretsDB(c) = [err |-> "ok", list |-> Listing(written, c)]
  /\ ListClientsRPC = [err |-> "ok", list |-> clients]

\* C40: the reads are answered from the writes in place right before a Lock
\* and again after every successful Unlock, and no step changes the buckets
\* from the Lock to that Unlock, failed Unlocks included: so the clients
\* bucket and every GetSecret and ListSecrets result after the Unlock are
\* those of right before the Lock.
C40_LockUnlockPreserves ==
  /\ [](resp = Resp("Unlock", "ok") => ReadsAsWritten)
  /\ [][(serving /\ ~isLocked /\ serving' /\ isLocked') => ReadsAsWritten]_vars
  /\ [][(serving /\ serving' /\ (isLocked \/ isLocked'))
          => (secrets' = secrets /\ clients' = clients /\ written' = written)]_vars

====
